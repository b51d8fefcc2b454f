SPECIFICATION FairSpec
CONSTANTS
  MaxSteps = 3
  Actions <- MCActions
  Mutating <- MCMutating
  ReadOnly <- MCReadOnly
  Dangerous <- WriteAndRead
  Contracts <- Deliverable
  RootPlans <- MCRootPlans
  Revisions <- MCRevisions
  RunAttemptBudget = 3
  MaxReviseRetries = 1
  MaxRepairRounds = 1
  MaxConfirmRetries = 1
INVARIANTS TypeOK NoFakeGreen
PROPERTIES RunsAfterDependencies MutationCovered Terminates
CHECK_DEADLOCK FALSE
