SPECIFICATION Spec
CONSTANTS
  g1 = g1 g2 = g2
  MaxOptions = 3
  ShardsPerMaster = 500
  MaxShardCount = 16384
  MinLeadTime = 1
  DrainWindow = 300
  LagComplete = TRUE
  Slugs = {g1, g2}
  Specs <- MCSpecs
  PrewarmLead = 2
  Grace = 1
  MaxTime = 6
  MaxLag = 2
CHECK_DEADLOCK FALSE
INVARIANTS EveryRowScans EveryPollHasABallot ValidIsASet CapacityDrains VotesHaveConsumers BroadcastIsCovered
