\* Memory holds the three pages a generation reads, but not the one ensure_pages_hot
\* warms ahead of it: pages go to the cold file and come back.
CONSTANTS
  Layers = {0, 1}
  Tokens <- MCPositions
  BlockSize = 2
  RamPageLimit = 3
  MaxPages = 4
  MaxEvictions = 20
  Zero = Zero
  Null = Null
  MaxPrompt = 3
  MaxNew = 4
  ReloadPeriod = 2
  Scripts <- MCScripts
  Undefined = Undefined
  MaxEdits = 1
SPECIFICATION GSpec
INVARIANTS
  GTypeOK
  AttentionPagesHot
  AttentionReadsHistory
  TokenBudget
  TokensNeverWait
  EditsAreNoticed
PROPERTIES
  EndsUnlessUnread
  GenerationAdvances
