SPECIFICATION Spec
CONSTANTS
  NumLayers = 2
  MaxPrompt = 2
  MaxDecoded = 2
  MaxFailures = 1
  Unset = Unset
INVARIANTS
  SyncedOutputIsForTheQuery
  RowsRead
  FreedOnlyWhenDrained
  ReleasedAtEnd
