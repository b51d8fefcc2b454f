SPECIFICATION Spec
CONSTANTS
  MaxSteps = 2
  Actions <- MCActions
  Mutating <- MCMutating
  ReadOnly <- MCReadOnly
  Dangerous <- NoSets
  Contracts <- Deliverable
  RootPlans <- AloneRoots
  Revisions <- CorrectedRevisions
  RunAttemptBudget = 2
  MaxReviseRetries = 0
  MaxRepairRounds = 0
  MaxConfirmRetries = 1
INVARIANT DeliversWhatItClaims
CHECK_DEADLOCK FALSE
