----------------------------- MODULE MCWeights -----------------------------
(***************************************************************************)
(* The way of the weights, from the file to the product: opening the file, *)
(* unpacking the scales of a block, finding the weights in it, walking a   *)
(* row, dividing the rows among threads.  These parts share no state: a    *)
(* behaviour is a behaviour of one of them, its `subject`, and the slots   *)
(* are the variables of that one.                                          *)
(***************************************************************************)
EXTENDS Integers, FiniteSets, Sequences

CONSTANTS Ops, DenseCpus, Sizes,                      \* DenseKernels
          Readers,                                    \* BlockFormats
          SixBit,                                     \* KQuantScales
          Functions, Dtypes, LinearCpus, RowCounts,   \* LinearLayers
          ThreadAnswers, Blocks, Outputs,
          Contents, Cuts                              \* GgufFile

VARIABLES subject, slot1, slot2, slot3, slot4, slot5, slot6, slot7, slot8, slot9

vars == <<subject, slot1, slot2, slot3, slot4, slot5, slot6, slot7, slot8, slot9>>

Dense == INSTANCE DenseKernels
           WITH Cpus <- DenseCpus, op <- slot1, cpu <- slot2, n <- slot3,
                pass <- slot4, loop <- slot5, i <- slot6, visits <- slot7,
                excess <- slot8, reach <- slot9
Formats == INSTANCE BlockFormats
           WITH reader <- slot1, iteration <- slot2, sum <- slot3
Scales == INSTANCE KQuantScales
           WITH scales <- slot1, mins <- slot2, sc <- slot3, unpacked <- slot4,
                unpacked_q5k <- slot5, stage <- slot6
Linear == INSTANCE LinearLayers
           WITH Cpus <- LinearCpus, call <- slot1, matrix <- slot2,
                written <- slot3, out <- slot4, overran <- slot5, status <- slot6
File == INSTANCE GgufFile
           WITH file <- slot1, size <- slot2, reads <- slot3, pos <- slot4,
                data_offset <- slot5, offsets <- slot6, status <- slot7

\* Dense kernels that exist, on rows of any length.
ASSUME DenseAssumption == Ops \subseteq DOMAIN Dense!Kernels /\ Sizes \subseteq Nat

\* Readers that exist.
ASSUME FormatsAssumption == Readers \subseteq DOMAIN Formats!Iterations

\* Scales and minima of six bits.
ASSUME ScalesAssumption == SixBit \subseteq 0..63

\* Any number of rows and any answer of the policy, rows of at least one block.
ASSUME LinearAssumption ==
    /\ Functions \subseteq {"forward_linear", "forward_linear_multi",
                            "forward_linear_batch", "forward_gemvs"}
    /\ Dtypes \subseteq {"Q4_K", "Q6_K", "Q4_0", "F32"}
    /\ RowCounts \subseteq Nat /\ ThreadAnswers \subseteq Int
    /\ Blocks \in Nat \ {0} /\ Outputs \in Nat

\* Metadata and tensors of any number, length and dimensions: a string has its
\* length, and no dimension is zero.
Metadata == [key : Nat, type : STRING, of : STRING, items : Seq(Nat)]
TensorInfos ==
    [id : STRING, name : Nat, shape : Seq(Nat \ {0}), offset : Nat,
     dtype : File!GgmlDTypes \union {"unknown"}]
ASSUME FileAssumption ==
    /\ Cuts \subseteq Nat
    /\ Contents \subseteq [magic : BOOLEAN, version : Nat,
                           kvs : Seq(Metadata), tensors : Seq(TensorInfos)]
    /\ \A f \in Contents : \A k \in DOMAIN f.kvs :
          f.kvs[k].type = "String" => f.kvs[k].items # <<>>
-----------------------------------------------------------------------------
(* The instances.                                                          *)

Tensor(id, shape, dtype, offset) ==
    [id |-> id, name |-> 1, shape |-> shape, dtype |-> dtype, offset |-> offset]
Pair(key, type, of, items) ==
    [key |-> key, type |-> type, of |-> of, items |-> items]

\* Metadata: none; scalars and a string; arrays; a value and an element of a
\* type the reader refuses.
MCPairs ==
    {<<>>,
     <<Pair(3, "U32", "none", <<0>>), Pair(5, "String", "none", <<4>>)>>,
     <<Pair(2, "Array", "String", <<1, 2>>), Pair(2, "Array", "F32", <<0, 0, 0>>)>>,
     <<Pair(2, "Array", "Array", <<1>>)>>,
     <<Pair(1, "Unknown", "none", <<0>>)>>}

\* Tensors: none; two with a gap between; columns that do not fill a block of
\* 256 or of 32; matrices of types that need more and fewer bytes than Q6_K for
\* as many columns; a type the reader refuses.
MCTensors ==
    {<<>>,
     <<Tensor("a", <<256, 2>>, "Q4_K", 0), Tensor("b", <<3>>, "F32", 288)>>,
     <<Tensor("a", <<300, 2>>, "Q6_K", 32), Tensor("a", <<2>>, "F16", 0)>>,
     <<Tensor("a", <<33>>, "Q4_0", 0)>>,
     <<Tensor("a", <<256, 1>>, "Q5_K", 0)>>,
     <<Tensor("a", <<256, 2>>, "Q8_0", 0), Tensor("b", <<300, 1>>, "Q4_0", 544)>>,
     <<Tensor("a", <<33>>, "unknown", 0)>>}

MCContents ==
    [magic : {TRUE}, version : {1, 3}, kvs : MCPairs, tensors : MCTensors]
      \union [magic : BOOLEAN, version : 0..4, kvs : {<<>>}, tensors : {<<>>}]
-----------------------------------------------------------------------------
Idle == "idle"

Init ==
    \/ /\ subject = "dense"
       /\ Dense!Init
    \/ /\ subject = "formats"
       /\ Formats!Init
       /\ slot4 = Idle /\ slot5 = Idle /\ slot6 = Idle
       /\ slot7 = Idle /\ slot8 = Idle /\ slot9 = Idle
    \/ /\ subject = "scales"
       /\ Scales!Init
       /\ slot7 = Idle /\ slot8 = Idle /\ slot9 = Idle
    \/ /\ subject = "linear"
       /\ Linear!Init
       /\ slot7 = Idle /\ slot8 = Idle /\ slot9 = Idle
    \/ /\ subject = "file"
       /\ File!Init
       /\ slot8 = Idle /\ slot9 = Idle

Next ==
    \/ subject = "dense" /\ Dense!Next /\ UNCHANGED subject
    \/ /\ subject = "formats" /\ Formats!Multiply
       /\ UNCHANGED <<subject, slot4, slot5, slot6, slot7, slot8, slot9>>
    \/ /\ subject = "scales" /\ Scales!Next
       /\ UNCHANGED <<subject, slot7, slot8, slot9>>
    \/ /\ subject = "linear" /\ Linear!Next
       /\ UNCHANGED <<subject, slot7, slot8, slot9>>
    \/ /\ subject = "file" /\ File!Next
       /\ UNCHANGED <<subject, slot8, slot9>>

Spec == Init /\ [][Next]_vars
-----------------------------------------------------------------------------
TypeOK ==
    CASE subject = "dense" -> Dense!TypeOK
      [] subject = "formats" -> Formats!TypeOK
      [] subject = "scales" -> Scales!TypeOK
      [] subject = "linear" -> Linear!TypeOK
      [] subject = "file" -> File!TypeOK

\* A row of a dense kernel is taken whole and once (DenseKernels).
ElementsOnce == subject = "dense" => Dense!ElementsOnce

\* The fused kernels multiply what the dequantisers unpack (BlockFormats).
KernelsReadAlike == subject = "formats" => Formats!KernelsReadAlike

\* The dequantisers read every bit of a block's weights once (BlockFormats).
BitsReadOnce == subject = "formats" => Formats!BitsReadOnce

\* Six-bit scales survive their packing (KQuantScales).
ScalesUnpacked == subject = "scales" => Scales!ScalesUnpacked

\* A matrix times a vector has each row once, whoever computes it (LinearLayers).
RowsOnce == subject = "linear" => Linear!RowsOnce

\* A tensor's bytes are in the file, or it is refused (GgufFile).
TensorBytesInFile == subject = "file" => File!TensorBytesInFile
=============================================================================
