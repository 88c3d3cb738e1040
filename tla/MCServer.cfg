\* Three requests, a queue whose limit is one and batches of one: the queue holds
\* requests of both priorities, and two of one, while it is popped.
CONSTANTS
  r1 = r1
  r2 = r2
  r3 = r3
  Requests = {r1, r2, r3}
  Streams = {r2}
  Tier <- MCTier
  Workload <- MCWorkload
  QueueLimit = 1
  MaxBatchSize = 1
  MaxInFlight = 2
  Threshold = 2
  ResetTimeout = 1
  TimerIds = {1, 2, 3}
SPECIFICATION FairSpec
INVARIANTS
  NoOvertaking
  RefusedNeverRuns
  OpenHasTimer
  WaitersHaveSenders
PROPERTIES
  
  OpenCloses
  RequestsAdvance
