\* Four calls of two threads, two ticks of one or two nanoseconds, one calibration,
\* and a logical counter that four calls take round.
CONSTANTS
  Threads = {prof, other}
  Profiler = prof
  Witnessed <- MCWitnessed
  Scales = {1, 2}
  LogicalMod = 4
  MaxTsc = 2
  MaxCalls = 4
  MaxCalibrations = 1
SPECIFICATION Spec
INVARIANTS
  StrictWhenSequential
  LayersAreATimeline
PROPERTIES
  WallNeverBack
  RetriesClimb
\* The calls are bounded: the clock stops with all of them made.
CHECK_DEADLOCK FALSE
