SPECIFICATION CalmSpec
CONSTANTS
  Rec = {r1}
  NoRec = NoRec
  Client = {c1}
  MaxSamples = 1
PROPERTY
  ShutdownReleasesTorque
