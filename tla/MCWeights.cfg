\* Row lengths on both sides of every vector width; every reader of a block but
\* q4k_vnni; thread answers below, at and above the clamp's ends.
CONSTANTS
  Ops = {"dot_product", "weighted_sum", "matmul_w3", "gemv_q8", "rms_norm", "quantize_activations", "matmul_transposed", "mojo_softmax_padic", "softmax_padic"}
  DenseCpus = {"avx512", "avx2", "plain"}
  Sizes = {0, 1, 7, 8, 15, 16, 17, 31, 33, 64, 65}
  Readers = {"dequant_q4k", "q4k_scalar", "q4k_avx2", "dequant_avx512", "dequant_avx2", "dequantize_q4k_block", "dequant_q6k", "q6k_scalar", "q6k_avx512", "q6k_avx2", "q5k", "q3k", "q2k", "q4_0"}
  SixBit = {0, 15, 16, 31, 47, 63}
  Functions = {"forward_linear", "forward_linear_multi", "forward_linear_batch", "forward_gemvs"}
  Dtypes = {"Q4_K", "Q6_K", "Q4_0", "F32"}
  LinearCpus = {"vnni", "plain"}
  RowCounts = {1, 5, 6}
  ThreadAnswers = {0, 2, 4}
  Blocks = 2
  Outputs = 2
  Contents <- MCContents
  Cuts = {0, 1, 31, 32, 40, 300, 500}
SPECIFICATION Spec
INVARIANTS
  ElementsOnce
  KernelsReadAlike
  BitsReadOnce
  ScalesUnpacked
  RowsOnce
  TensorBytesInFile
CHECK_DEADLOCK FALSE
