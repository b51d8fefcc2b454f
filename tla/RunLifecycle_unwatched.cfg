SPECIFICATION NoWatchdogSpec
CONSTANTS
  Confirms = {c1, c2}
  Pausers = {}
  Resumers = {}
  Confirmers = {k1, k2}
  Deleters = {d1}
  RunAttemptBudget = 2
  MaxConfirmRetries = 2
  MaxLayers = 1
  MaxCrashes = 1
PROPERTIES
  RunTerminates
