SPECIFICATION Spec
CONSTANTS
  Rec = {r1, r2}
  NoRec = NoRec
  Client = {c1}
  MaxSamples = 1
INVARIANT
  TorqueIsVisible
