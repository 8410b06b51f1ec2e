SPECIFICATION Spec
CONSTANTS
  i1 = i1 i2 = i2 v1 = v1 v2 = v2 a = a b = b
  Snapshotters = {i1}
  Voters = {v1, v2}
  Options = {a, b}
  Shards = {1, 2}
  ShardOf <- MCShardOf
  ChoicesOf <- MultipleChoices
  OpensAt = 2
  ClosesAt = 3
  CloseLag = 1
  Grace = 1
  Late = 1
  MaxTime = 4
  OtherVotes = 0
  LagComplete = FALSE
CHECK_DEADLOCK FALSE
INVARIANTS FinalIsExact
