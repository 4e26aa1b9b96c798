SPECIFICATION StudioSpec
CONSTANTS
  Token = {t1}
  Viewer = {v1}
  Camera = {overhead}
  Handler = {h1}
INVARIANT
  SoleBusOwner
