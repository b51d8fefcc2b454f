SPECIFICATION Spec
CONSTANTS
  NoFields = NoFields
  Calls <- Clicks
  Tools <- MCTools
  ToolOf <- ClickToolOf
  Input <- ClickInput
  KeyFields <- ClickKeyFields
  LayerOf <- ClickLayerOf
  ReadOnly = {}
  Confirming = {}
  Faulty = {}
  Retried = {"raised", "timeout", "asks"}
  MaxParallel = 2
  ToolLimit <- MCToolLimit
  MaxRetries = 1
  MaxConfirmRetries = 1
INVARIANT NeverCached
CHECK_DEADLOCK FALSE
