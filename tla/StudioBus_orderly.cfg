SPECIFICATION OrderlyFairSpec
CONSTANTS
  Token = {t1, t2}
  Viewer = {v1, v2}
  Camera = {overhead, wrist}
  Handler = {h1, h2}
INVARIANTS
  StudioTypeOK
  HardwareIsAttended
  SharedOnlyWithLeaving
  LiveYieldsBus
PROPERTIES
  CamerasStayShut
  AbandonedIsReclaimed
