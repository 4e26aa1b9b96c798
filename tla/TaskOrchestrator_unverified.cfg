SPECIFICATION CalmSpec
CONSTANTS
  Mode = {"observe_only", "simulation", "physical_shadow", "demo_physical"}
  MaxActions = 2
  MaxWakes = 2
INVARIANT ResultIsVerified
