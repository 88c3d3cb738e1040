---------------------------- MODULE KQuantScales ----------------------------
(***************************************************************************)
(* The twelve bytes in which Q4_K and Q5_K pack eight scales and eight     *)
(* minima of six bits, and the code that unpacks them.  make_q4k_block of  *)
(* the kernel tests packs; a file's writer is taken to pack as it does.    *)
(***************************************************************************)
EXTENDS Naturals, FiniteSets

CONSTANT SixBit   \* values a scale or a minimum may have, of 0..63

VARIABLES scales, mins,   \* eight of each, before packing
          sc,             \* the packed bytes
          unpacked,       \* [scales, mins] of unpack_scales, unpack_scales_q4k
          unpacked_q5k,   \* [scales, mins] of dequant_q5k
          stage

vars == <<scales, mins, sc, unpacked, unpacked_q5k, stage>>

SubBlocks == 0..7
None == [scales |-> <<>>, mins |-> <<>>]

\* Byte j, j + 4 and j + 8 depend on the sub-blocks j and j + 4 only.
Only(j, low, high) ==
    [b \in SubBlocks |-> IF b = j THEN low ELSE IF b = j + 4 THEN high ELSE 0]

Init ==
    /\ \E j \in 0..3, s, t, u, v \in SixBit :
         scales = Only(j, s, t) /\ mins = Only(j, u, v)
    /\ sc = [k \in 0..11 |-> 0]
    /\ unpacked = None
    /\ unpacked_q5k = None
    /\ stage = "pack"

Packed ==
    [k \in 0..11 |->
        IF k < 4 THEN scales[k] + (scales[k + 4] \div 16) * 64
        ELSE IF k < 8 THEN mins[k - 4] + (mins[k] \div 16) * 64
        ELSE (scales[k - 4] % 16) + (mins[k - 4] % 16) * 16]

make_q4k_block ==
    /\ stage = "pack"
    /\ sc' = Packed
    /\ stage' = "unpack"
    /\ UNCHANGED <<scales, mins, unpacked, unpacked_q5k>>

\* Mutant: the upper halves of scales and minima are taken from each other.
Unpack_Swapped ==
    [scales |-> [b \in SubBlocks |->
        IF b < 4 THEN sc[b] % 64
        ELSE sc[b + 4] \div 16 + (sc[b - 4] \div 64) * 16],
     mins |-> [b \in SubBlocks |->
        IF b < 4 THEN sc[b + 4] % 64
        ELSE (sc[b + 4] % 16) + (sc[b] \div 64) * 16]]

Unpack ==
    [scales |-> [b \in SubBlocks |->
        IF b < 4 THEN sc[b] % 64
        ELSE (sc[b + 4] % 16) + (sc[b - 4] \div 64) * 16],
     mins |-> [b \in SubBlocks |->
        IF b < 4 THEN sc[b + 4] % 64
        ELSE sc[b + 4] \div 16 + (sc[b] \div 64) * 16]]

\* dequant_q5k and dequantize_q4k_block_avx512; both mask with 0x3F what they
\* use, so the bits shifted above it are gone.  Sub-block 2i gets the scale of i
\* and sub-block 2i + 1 the minimum of i, and the scales of the upper four are
\* never read.
UnpackQ5K ==
    [scales |-> [b \in SubBlocks |->
        IF b % 2 = 0 THEN sc[b \div 2] % 64 ELSE sc[b \div 2 + 4] % 64],
     mins |-> [b \in SubBlocks |->
        IF b % 2 = 0
        THEN (sc[b \div 2] \div 64 + 4 * (sc[b \div 2 + 8] % 16)) % 64
        ELSE (sc[b \div 2 + 4] \div 64 + 4 * (sc[b \div 2 + 8] \div 16)) % 64]]

Dequantise ==
    /\ stage = "unpack"
    /\ unpacked' = Unpack
    /\ unpacked_q5k' = UnpackQ5K
    /\ stage' = "done"
    /\ UNCHANGED <<scales, mins, sc>>

Next == make_q4k_block \/ Dequantise

Spec == Init /\ [][Next]_vars
-----------------------------------------------------------------------------
TypeOK ==
    /\ scales \in [SubBlocks -> SixBit \union {0}]
    /\ mins \in [SubBlocks -> SixBit \union {0}]
    /\ sc \in [0..11 -> 0..255]
    /\ stage \in {"pack", "unpack", "done"}

\* unpack_scales and unpack_scales_q4k recover what was packed, at every edge of
\* the six bits, the upper two of which lie apart from the others.
ScalesUnpacked ==
    stage = "done" => unpacked = [scales |-> scales, mins |-> mins]

\* "Desempacota escalas e mins (mesmo algoritmo Q4_K)" (q5_k.rs:35): so does
\* dequant_q5k, whose blocks carry the same twelve bytes.
Q5KScalesUnpacked ==
    stage = "done" => unpacked_q5k = [scales |-> scales, mins |-> mins]

\* Inductive: until the bytes are unpacked they are those the values were packed
\* into, and the values do not change.
PackedInv ==
    /\ scales \in [SubBlocks -> 0..63]
    /\ mins \in [SubBlocks -> 0..63]
    /\ stage \in {"pack", "unpack", "done"}
    /\ stage = "unpack" => sc = Packed
    /\ ScalesUnpacked
=============================================================================
