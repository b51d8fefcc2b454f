SPECIFICATION FairSpec
CONSTANTS
  Confirms = {c1}
  Pausers = {p1}
  Resumers = {r1}
  Confirmers = {k1}
  Deleters = {}
  RunAttemptBudget = 2
  MaxConfirmRetries = 1
  MaxLayers = 1
  MaxCrashes = 1
PROPERTY
  RunTerminates
