------------------------------ MODULE GgufFile ------------------------------
(***************************************************************************)
(* src/swamp-gguf: parsing a model file and handing out the bytes of its   *)
(* tensors.  A file is what its writer put into it (the format's versions, *)
(* key-value pairs and tensors) and the number of bytes that are there,    *)
(* fewer when the copy was cut short.  The reader is a cursor: one step is *)
(* one read of Reader, and fails past the end.                             *)
(***************************************************************************)
EXTENDS Naturals, FiniteSets, Sequences, SequencesExt, FiniteSetsExt

CONSTANTS
    Contents,   \* [magic, version, kvs, tensors] of the files explored
    Cuts        \* bytes that may be missing at the end

VARIABLES
    file,         \* a member of Contents
    size,         \* bytes of the memory map
    reads,        \* the reads still to be made, as [width, ok]
    pos,          \* Reader::pos
    data_offset,
    offsets,      \* TensorInfo::offset of each tensor, relative to the map
    status        \* "parsing", "ok", "eof", "invalid"

vars == <<file, size, reads, pos, data_offset, offsets, status>>
-----------------------------------------------------------------------------
(* Types: elements of a block and its bytes.                               *)

Single == {"F32", "F16", "BF16", "I8", "I16", "I32", "I64", "F64"}
Blocks32 == {"Q4_0", "Q4_1", "Q5_0", "Q5_1", "Q8_0", "Q8_1", "IQ4_NL", "IQ4_XS"}
Blocks256 == {"Q2_K", "Q3_K", "Q4_K", "Q5_K", "Q6_K", "Q8_K", "IQ2_XXS", "IQ2_XS",
              "IQ2_S", "IQ3_XXS", "IQ3_S", "IQ1_S", "IQ1_M"}
GgmlDTypes == Single \union Blocks32 \union Blocks256

block_size(dtype) ==
    CASE dtype \in Single -> 1 [] dtype \in Blocks32 -> 32 [] dtype \in Blocks256 -> 256

type_size(dtype) ==
    CASE dtype = "I8" -> 1 [] dtype \in {"F16", "BF16", "I16"} -> 2
      [] dtype \in {"F32", "I32"} -> 4 [] dtype \in {"F64", "I64"} -> 8
      [] dtype \in {"Q4_0", "IQ4_NL"} -> 18 [] dtype = "Q4_1" -> 20
      [] dtype = "Q5_0" -> 22 [] dtype = "Q5_1" -> 24
      [] dtype = "Q8_0" -> 34 [] dtype = "Q8_1" -> 40
      [] dtype = "IQ1_S" -> 50 [] dtype = "IQ1_M" -> 56
      [] dtype = "IQ2_XXS" -> 66 [] dtype = "IQ2_XS" -> 74 [] dtype = "IQ2_S" -> 82
      [] dtype = "Q2_K" -> 84 [] dtype = "IQ3_XXS" -> 98
      [] dtype \in {"Q3_K", "IQ3_S"} -> 110 [] dtype = "IQ4_XS" -> 136
      [] dtype = "Q4_K" -> 144 [] dtype = "Q5_K" -> 176
      [] dtype = "Q6_K" -> 210 [] dtype = "Q8_K" -> 292

\* Mutant: a block that is not full is not counted.
nbytes_for_Floor(dtype, n_elems) ==
    (n_elems \div block_size(dtype)) * type_size(dtype)

nbytes_for(dtype, n_elems) ==
    ((n_elems + block_size(dtype) - 1) \div block_size(dtype)) * type_size(dtype)

n_elems(tensor) == FoldLeft(LAMBDA a, b : a * b, 1, tensor.shape)
nbytes(tensor) == nbytes_for(tensor.dtype, n_elems(tensor))
-----------------------------------------------------------------------------
(* The reads the parser makes.                                             *)

Read(width) == [width |-> width, ok |-> TRUE]
Checked(width, ok) == [width |-> width, ok |-> ok]

\* Counts and dimensions are wider since version 2.
Counter(version) == Read(IF version >= 2 THEN 8 ELSE 4)

read_string(length) == <<Read(8), Read(length)>>

ScalarWidth(type) ==
    CASE type \in {"U8", "I8", "Bool"} -> 1 [] type \in {"U16", "I16"} -> 2
      [] type \in {"U32", "I32", "F32"} -> 4 [] type \in {"U64", "I64", "F64"} -> 8
Scalars == {"U8", "I8", "Bool", "U16", "I16", "U32", "I32", "F32", "U64", "I64", "F64"}

\* A string's value is its length, an array's [of, items]; any other type is
\* refused, in a value as in an array.
parse_element(type, length) ==
    IF type = "String" THEN read_string(length) ELSE <<Read(ScalarWidth(type))>>

parse_metadata_array(of, items) ==
    IF of \in Scalars \union {"String"}
    THEN FlattenSeq([k \in DOMAIN items |-> parse_element(of, items[k])])
    ELSE <<Checked(0, FALSE)>>

parse_metadata_value(kv) ==
    IF kv.type = "Array"
    THEN <<Read(4), Read(8)>> \o parse_metadata_array(kv.of, kv.items)
    ELSE IF kv.type \in Scalars \union {"String"}
    THEN parse_element(kv.type, kv.items[1])
    ELSE <<Checked(0, FALSE)>>

parse_kv(kv) == read_string(kv.key) \o <<Read(4)>> \o parse_metadata_value(kv)

parse_tensor_info(tensor, version) ==
    read_string(tensor.name) \o <<Read(4)>>
      \o [d \in DOMAIN tensor.shape |-> Counter(version)]
      \o <<Checked(4, tensor.dtype # "unknown"), Read(8)>>

parse(f) ==
    <<Checked(4, f.magic), Checked(4, f.version \in 1..3),
      Counter(f.version), Counter(f.version)>>
      \o FlattenSeq([k \in DOMAIN f.kvs |-> parse_kv(f.kvs[k])])
      \o FlattenSeq([k \in DOMAIN f.tensors |->
                       parse_tensor_info(f.tensors[k], f.version)])
-----------------------------------------------------------------------------
(* What the writer laid out.                                               *)

Alignment == 32
Aligned(n) == ((n + Alignment - 1) \div Alignment) * Alignment

\* The bytes of the first n reads of a file.
BytesOf(f, n) ==
    LET widths == [k \in 1..n |-> parse(f)[k].width]
    IN  FoldLeft(LAMBDA a, b : a + b, 0, widths)

HeaderBytes(f) == BytesOf(f, Len(parse(f)))

\* Every block a tensor starts is written in full.
BlocksStarted(tensor) ==
    {k \in 0..(n_elems(tensor) - 1) : k % block_size(tensor.dtype) = 0}
Written(tensor) == Cardinality(BlocksStarted(tensor)) * type_size(tensor.dtype)

\* A tensor's offset counts from the start of the data.
End(tensor) == tensor.offset + Written(tensor)
DataBytes(f) ==
    LET known == {k \in DOMAIN f.tensors : f.tensors[k].dtype # "unknown"}
    IN  Max({0} \union {End(f.tensors[k]) : k \in known})
FileBytes(f) == Aligned(HeaderBytes(f)) + DataBytes(f)

Init ==
    /\ file \in Contents
    /\ \E cut \in Cuts :
          /\ cut <= FileBytes(file)
          /\ size = FileBytes(file) - cut
    /\ reads = parse(file)
    /\ pos = 0
    /\ data_offset = 0
    /\ offsets = <<>>
    /\ status = "parsing"

ReadNext ==
    /\ status = "parsing"
    /\ reads # <<>>
    /\ reads' = Tail(reads)
    /\ IF pos + Head(reads).width > size
       THEN status' = "eof" /\ UNCHANGED pos
       ELSE /\ pos' = pos + Head(reads).width
            /\ status' = IF Head(reads).ok THEN "parsing" ELSE "invalid"
    /\ UNCHANGED <<file, size, data_offset, offsets>>

\* The end of parse(): the offsets become relative to the map.
Relocate ==
    /\ status = "parsing"
    /\ reads = <<>>
    /\ data_offset' = Aligned(pos)
    /\ offsets' = [k \in DOMAIN file.tensors |->
                     file.tensors[k].offset + data_offset']
    /\ status' = "ok"
    /\ UNCHANGED <<file, size, reads, pos>>

Next == ReadNext \/ Relocate

Spec == Init /\ [][Next]_vars
-----------------------------------------------------------------------------
(* What an open file answers.                                              *)

\* tensor(): the first of the name.
tensor(name) ==
    LET named == {k \in DOMAIN file.tensors : file.tensors[k].id = name}
    IN  IF named = {} THEN 0 ELSE Min(named)

\* The range of tensor_raw_bytes, or none when it is not in the map.
InMap(start, end) == start <= end /\ end <= size
tensor_raw_bytes(k) ==
    LET end == offsets[k] + nbytes(file.tensors[k])
    IN  IF InMap(offsets[k], end) THEN offsets[k]..(end - 1) ELSE {}

\* The types whose raw rows an entry point of linear.rs walks with unchecked
\* pointers; it reads the others inside a slice of the granted bytes.
Walked == [forward_linear |-> {"Q4_K", "Q6_K"}, forward_linear_multi |-> {"Q4_K", "Q6_K"},
           forward_linear_batch |-> {"Q4_K"}, forward_gemvs |-> GgmlDTypes]

\* What it takes for 256 columns: forward_gemvs reads all but Q4_K as Q6_K.
KernelBytes(dtype) == IF dtype = "Q4_K" THEN 144 ELSE 210

\* The bytes it takes for all rows of a matrix, whatever threads they go to.
RowsOfLinear(k) ==
    LET t == file.tensors[k]
    IN  offsets[k]..(offsets[k]
          + t.shape[2] * (t.shape[1] \div 256) * KernelBytes(t.dtype) - 1)

TypeOK ==
    /\ file \in Contents
    /\ size \in Nat /\ pos \in 0..size
    /\ status \in {"parsing", "ok", "eof", "invalid"}

\* The cursor is behind the first n reads: all of them were as the format has
\* them, and the others are still to be made.
CursorBehind(n) ==
    /\ pos = BytesOf(file, n) /\ pos <= size
    /\ status = "parsing" => reads = SubSeq(parse(file), n + 1, Len(parse(file)))
    /\ status \in {"parsing", "ok"} => \A k \in 1..n : parse(file)[k].ok
    /\ status = "ok" =>
          /\ n = Len(parse(file))
          /\ offsets = [k \in DOMAIN file.tensors |->
                          file.tensors[k].offset + Aligned(pos)]

\* Inductive, and TensorBytesInFile follows: besides, an attempt to read past the
\* end shows that some of the header is missing.
CursorInv ==
    /\ file \in Contents
    /\ size \in Nat
    /\ status \in {"parsing", "ok", "eof", "invalid"}
    /\ \E n \in 0..Len(parse(file)) : CursorBehind(n)
    /\ status = "eof" => size < HeaderBytes(file)

\* 256 columns are written in fewer bytes than the kernel takes for them.
Overreads(dtype) == (256 \div block_size(dtype)) * type_size(dtype) < KernelBytes(dtype)

\* The rows of matrix k are read from the bytes granted for it.
RowsGranted(k) ==
    LET t == file.tensors[k]
        within == RowsOfLinear(k) \subseteq tensor_raw_bytes(k)
    IN  \A fn \in DOMAIN Walked : t.dtype \in Walked[fn] =>
          IF fn = "forward_gemvs" /\ Overreads(t.dtype)
          THEN t.shape[1] % 256 = 0 => ~within
          ELSE within

\* Wherever the file was cut, the parser never goes past its end; once it is
\* open, a tensor's bytes are granted exactly when all of them are there, they
\* are the ones its writer placed, and the rows linear.rs walks with unchecked
\* pointers lie among them, even when the columns do not fill their last block.
\* The one exception is forward_gemvs on a type, not Q4_K, written in fewer bytes
\* than Q6_K (Q4_0, Q5_K and others): with whole blocks of 256 columns the last of
\* its rows always ends past the granted bytes.
TensorBytesInFile ==
    /\ pos <= size
    /\ status = "ok" => \A k \in DOMAIN offsets :
         LET t == file.tensors[k]
             begin == Aligned(HeaderBytes(file)) + t.offset
         IN  /\ tensor_raw_bytes(k) # {} <=> begin + Written(t) <= size
             /\ tensor_raw_bytes(k) # {} =>
                  /\ tensor_raw_bytes(k) = begin..(begin + Written(t) - 1)
                  /\ Len(t.shape) = 2 => RowsGranted(k)
    /\ status \in {"eof", "ok"} =>
         (status = "eof" <=> size < HeaderBytes(file))
=============================================================================
