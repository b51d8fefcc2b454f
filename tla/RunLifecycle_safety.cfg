SPECIFICATION Spec
CONSTANTS
  Confirms = {c1, c2}
  Pausers = {p1}
  Resumers = {r1}
  Confirmers = {k1, k2}
  Deleters = {}
  RunAttemptBudget = 2
  MaxConfirmRetries = 2
  MaxLayers = 1
  MaxCrashes = 2
SYMMETRY Symmetry
INVARIANTS
  TypeOK
  TerminalIsLast
  ResumeAnswersPause
  NoAbandonedRun
PROPERTY
  ImplementsContract
