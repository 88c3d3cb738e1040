\* The prompt of one layer read while another runs: no call has to fail.
SPECIFICATION Spec
CONSTANTS
  NumLayers = 2
  MaxPrompt = 2
  MaxDecoded = 1
  MaxFailures = 0
  Unset = Unset
INVARIANTS
  OwnLayerRead
