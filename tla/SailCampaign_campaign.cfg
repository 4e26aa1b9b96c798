SPECIFICATION Spec
CONSTANTS
  Op = {p1, p2}
  Root = {o1, o2}
  fixture = fixture
  again = again
  other = other
  family = family
  trials = trials
  trial = trial
  last = last
  Request = {fixture, again, other, family, trials, trial, last}
  Simulated = {fixture, again, other, family}
  Lane <- MCLane
  Ids <- MCIds
  Budget <- MCBudget
  None = None
SYMMETRY OpsAndRoots
INVARIANTS
  CampaignTypeOK
  AnswersAreKept
PROPERTIES
  HeadIsReceipted
  KeepsCampaign
