\* Four one-position pages, three of them allowed in memory: the shortest list
\* with a middle, and one page too many.
CONSTANTS
  Layers = {l1}
  Tokens = {t1}
  BlockSize = 1
  RamPageLimit = 3
  MaxPages = 4
  MaxEvictions = 3
  Zero = Zero
  Null = Null
SPECIFICATION FairSpec
INVARIANTS
  TypeOK
  LruListsHotPages
  MemoryBound
  PageTableConsistent
  CallPrepared
PROPERTIES
  EnsuredRangeHot
  ImplementsTier
  CallReturns
  CallAdvances
