SPECIFICATION Spec
CONSTANTS
  Lower = 0
  Upper = 8
  Slack = 1
  Rate = 1
  MaxInterval = 1
  Track = 3
  StallError = 1
  MinProgress = 2
  Timeout = 4
  Hold = 1
  MaxTick = 2
INVARIANTS
  JointTypeOK
  StuckIsReleased
PROPERTY
  GentleStep
