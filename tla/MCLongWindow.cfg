SPECIFICATION Spec
CONSTANTS
  w1 = w1 w2 = w2 v1 = v1 v2 = v2 d1 = d1 d2 = d2 d3 = d3
  Workers = {w1, w2}
  Deliveries = {d1, d2, d3}
  VoterOf <- MCVoterOf
  Invalid = {}
  Voters = {v1, v2}
  Shards = {1}
  ShardOf <- OneShard
  Frac <- MCFrac
  MinRequests = 2
  SafetyMargin = 1
  Window = 2
  Configs <- MCConfigs
CHECK_DEADLOCK FALSE
INVARIANTS CountedOnce
