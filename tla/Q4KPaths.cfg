\* The three kernels of fused_gemv_q4k, one for each kind of processor.
CONSTANTS
  Readers = {"q4k_scalar", "q4k_avx2", "q4k_vnni"}
SPECIFICATION Spec
INVARIANTS
  FusedQ4KIsDequantised
CHECK_DEADLOCK FALSE
