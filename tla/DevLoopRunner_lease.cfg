SPECIFICATION FairSpec
CONSTANTS
  Runner = {p1, p2}
  Identity = {good, bad}
  Passing = {good}
  Pid = {k1, k2}
  None = None
INVARIANTS
  TypeOK
  RunIsLeased
  LeaseInv
PROPERTIES
  KeepsRuns
  CallReturns
