SPECIFICATION CalmSpec
CONSTANTS
  Rec = {r1, r2}
  NoRec = NoRec
  Client = {c1, c2}
  MaxSamples = 1
SYMMETRY AllPermutations
INVARIANTS
  TypeOK
  OneRecorder
  TorqueIsVisible
  TorqueUnderCamera
  AwaitedIsOffered
  SavedIsComplete
  FailedEvidenceKept
  IInv
PROPERTY
  KeepsBus
