SPECIFICATION FairSpec
CONSTANTS
  NoFields = NoFields
  Calls <- MCCalls
  Tools <- MCTools
  ToolOf <- MCToolOf
  Input <- MCInput
  KeyFields <- MCKeyFields
  LayerOf <- MCLayerOf
  ReadOnly = {"b"}
  Confirming = {"a", "b"}
  Faulty = {"p", "a"}
  Retried = {"raised", "timeout", "asks"}
  MaxParallel = 2
  ToolLimit <- MCToolLimit
  MaxRetries = 1
  MaxConfirmRetries = 1
INVARIANTS TypeOK HitIsGenuine RunsConfirmed SucceedsOnce CallsSettled
PROPERTY CallsReturn
CHECK_DEADLOCK FALSE
