SPECIFICATION Spec
CONSTANTS
  Confirms = {c1}
  Pausers = {p1}
  Resumers = {r1}
  Confirmers = {}
  Deleters = {d1}
  RunAttemptBudget = 2
  MaxConfirmRetries = 1
  MaxLayers = 1
  MaxCrashes = 0
INVARIANT
  NoAbandonedRun
