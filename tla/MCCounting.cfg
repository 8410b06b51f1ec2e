SPECIFICATION Spec
CONSTANTS
  c1 = c1 c2 = c2 p1 = p1 p2 = p2 q1 = q1 v1 = v1 v2 = v2 a = a b = b
  Consumers = {c1, c2}
  Partitions = {p1}
  NoOwner = NoOwner
  Polls = {q1}
  Voters = {v1, v2}
  Options = {a, b}
  Shards = {1, 2}
  BadVoter = BadVoter
  Malformed = Malformed
  Messages <- MCMessages
  PartitionOf <- OnePartition
  ShardOf <- TwoShards
  OpensAt <- MCOpensAt
  ClosesAt <- MCClosesAt
  CloseLag = 0
  Workers = 2
  MaxLog = 2
  RefreshInBudget = TRUE
  FetchErrorsAlone = TRUE
  TransientReplies = TRUE
  CommitsSucceed = FALSE
CHECK_DEADLOCK FALSE
SYMMETRY Symmetry
INVARIANTS CommittedIsSettled TallyExact
PROPERTIES FirstBallotStands BallotBoxSpec
