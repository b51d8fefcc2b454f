SPECIFICATION FairSpec
CONSTANTS
  a1 = a1
  a2 = a2
  a3 = a3
  c1 = c1
  c2 = c2
  r1 = r1
  r2 = r2
  r3 = r3
  k1 = k1
  NoKey = NoKey
  Nobody = Nobody
  Keys = {k1}
  Appenders = {a1, a2, a3}
  Claimers = {}
  Runs <- MCRuns
  RunOf <- MCRunOf
  KeyOf <- MCKeyOf
  MaxRetries = 3
  MaxCancels = 2
  MaxFaults = 2
INVARIANTS
  TypeOK
  CreatedIsStored
  RaisedLeavesNothing
PROPERTIES
  ImplementsLog
  EveryCallEnds
CHECK_DEADLOCK FALSE
