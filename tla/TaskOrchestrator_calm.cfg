SPECIFICATION CalmFairSpec
CONSTANTS
  Mode = {"observe_only", "simulation", "physical_shadow", "demo_physical"}
  MaxActions = 2
  MaxWakes = 2
INVARIANTS
  
  WorkerSurvives
  OneAdapterRuns
  DownIsQuiet
  AdaptersFollowSession
  EvidenceIsComing
PROPERTIES
  WakeIsTaken
  SkillSettles
