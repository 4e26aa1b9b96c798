SPECIFICATION StillSpec
CONSTANTS
  Runner = {p1, p2, p3}
  Identity = {good, bad}
  Passing = {good}
  Pid = {k1, k2}
  None = None
SYMMETRY RunnersAndPids
INVARIANT
  PassIsHonest
PROPERTY
  KeepsLedger
