SPECIFICATION CalmFairSpec
CONSTANTS
  Rec = {r1, r2}
  NoRec = NoRec
  Client = {c1}
  MaxSamples = 1
PROPERTIES
  StopReleasesTorque
  FailureReturnsToReady
