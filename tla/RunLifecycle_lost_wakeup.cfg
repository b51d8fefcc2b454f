SPECIFICATION Spec
CONSTANTS
  Confirms = {c1}
  Pausers = {}
  Resumers = {}
  Confirmers = {k1}
  Deleters = {}
  RunAttemptBudget = 2
  MaxConfirmRetries = 1
  MaxLayers = 1
  MaxCrashes = 0
INVARIANT
  ResumeWakesLoop
