SPECIFICATION FairSpec
CONSTANTS
  c1 = c1 c2 = c2 p1 = p1 p2 = p2 q1 = q1 v1 = v1 v2 = v2 a = a b = b
  Consumers = {c1}
  Partitions = {p1}
  NoOwner = NoOwner
  Polls = {q1}
  Voters = {v1, v2}
  Options = {a, b}
  Shards = {1, 2}
  BadVoter = BadVoter
  Malformed = Malformed
  Messages <- MCOddMessages
  PartitionOf <- OnePartition
  ShardOf <- TwoShards
  OpensAt <- MCOpensAt
  ClosesAt <- MCClosesAt
  CloseLag = 1
  Workers = 2
  MaxLog = 2
  RefreshInBudget = TRUE
  FetchErrorsAlone = TRUE
  TransientReplies = TRUE
  CommitsSucceed = TRUE
CHECK_DEADLOCK FALSE
INVARIANTS TypeOK CommittedIsSettled
PROPERTIES BallotBoxSpec EveryVoteSettled DrainReachesZero
