\* Values at the edges of six bits, and of the four and two they are split into.
SPECIFICATION Spec
CONSTANTS
  SixBit = {0, 1, 15, 16, 63}
INVARIANTS
  Q5KScalesUnpacked
CHECK_DEADLOCK FALSE
