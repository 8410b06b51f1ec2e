-------------------------- MODULE SnapshotterProofs --------------------------
(* Theorems about Snapshotter, for any number of instances, voters, options  *)
(* and shards and every window and grace period.                             *)
EXTENDS Snapshotter, PollStoreProofs, FiniteSetTheorems

-----------------------------------------------------------------------------
(* Aggregates.  Below is the order in which snapshots grow.                  *)
Aggregate == [votes : [Options -> Nat], ballots : Nat]

Below(a, b) == a.ballots <= b.ballots /\ \A o \in Options : a.votes[o] <= b.votes[o]

Within(a) == \A o \in Options : a.votes[o] <= a.ballots

(* The counted voters of the shards in X, and of those that are not.         *)
InShards(V, X) == { v \in V : ShardOf[v] \in X }
Outside(V, X)  == { v \in V : ShardOf[v] \notin X }


LEMMA AggregateOrder ==
  ASSUME NEW a \in Aggregate, NEW b \in Aggregate
  PROVE  /\ Below(a, a)
         /\ Below(a, b) /\ Below(b, a) => a = b
         /\ \A c \in Aggregate : Below(a, b) /\ Below(b, c) => Below(a, c)
<1>1. Below(a, a)
  BY DEF Below, Aggregate
<1>2. ASSUME Below(a, b), Below(b, a) PROVE a = b
  <2>1. a.ballots = b.ballots
    BY <1>2 DEF Below, Aggregate
  <2>2. \A o \in Options : a.votes[o] = b.votes[o]
    BY <1>2 DEF Below, Aggregate
  <2>3. a.votes = b.votes
    BY <2>2 DEF Aggregate
  <2> QED
    BY <2>1, <2>3 DEF Aggregate
<1>3. ASSUME NEW c \in Aggregate, Below(a, b), Below(b, c) PROVE Below(a, c)
  BY <1>3 DEF Below, Aggregate
<1> QED
  BY <1>1, <1>2, <1>3

(* MergeMax is the least aggregate above both.                               *)
LEMMA MergeIsLub ==
  ASSUME NEW a \in Aggregate, NEW b \in Aggregate
  PROVE  /\ MergeMax(a, b) \in Aggregate
         /\ Below(a, MergeMax(a, b)) /\ Below(b, MergeMax(a, b))
         /\ Within(a) /\ Within(b) => Within(MergeMax(a, b))
         /\ \A c \in Aggregate : Below(a, c) /\ Below(b, c) => Below(MergeMax(a, b), c)
<1> DEFINE m == MergeMax(a, b)
<1>1. DOMAIN a.votes = Options
  BY DEF Aggregate
<1>2. m = [votes |-> [o \in Options |-> Larger(a.votes[o], b.votes[o])],
           ballots |-> Larger(a.ballots, b.ballots)]
  BY <1>1 DEF MergeMax
<1>3. /\ m.ballots = Larger(a.ballots, b.ballots)
      /\ \A o \in Options : m.votes[o] = Larger(a.votes[o], b.votes[o])
  BY <1>2
<1>4. m \in Aggregate
  BY <1>2 DEF Aggregate, Larger
<1> HIDE DEF m
<1>5. Below(a, m) /\ Below(b, m)
  BY <1>3 DEF Below, Aggregate, Larger
<1>6. Within(a) /\ Within(b) => Within(m)
  BY <1>3 DEF Within, Aggregate, Larger
<1>7. \A c \in Aggregate : Below(a, c) /\ Below(b, c) => Below(m, c)
  BY <1>3 DEF Below, Larger
<1> QED
  BY <1>4, <1>5, <1>6, <1>7 DEF m

LEMMA AddIsMonotone ==
  ASSUME NEW a \in Aggregate, NEW b \in Aggregate
  PROVE  /\ AddShard(a, b) \in Aggregate
         /\ Within(a) /\ Within(b) => Within(AddShard(a, b))
         /\ \A c \in Aggregate : Below(a, c) => Below(AddShard(a, b), AddShard(c, b))
<1>1. AddShard(a, b) \in Aggregate
  BY DEF AddShard, Aggregate
<1>2. Within(a) /\ Within(b) => Within(AddShard(a, b))
  BY DEF Within, AddShard, Aggregate
<1>3. ASSUME NEW c \in Aggregate, Below(a, c)
      PROVE  Below(AddShard(a, b), AddShard(c, b))
  BY <1>3 DEF Below, AddShard, Aggregate
<1> QED
  BY <1>1, <1>2, <1>3

-----------------------------------------------------------------------------
(* Tallies.                                                                  *)
ForOption(V, o) == { v \in V : o \in ChoicesOf[v] }

LEMMA TallyIsAggregate ==
  ASSUME NEW V \in SUBSET Voters
  PROVE  /\ IsFiniteSet(V) /\ \A o \in Options : IsFiniteSet(ForOption(V, o))
         /\ Tally(V) \in Aggregate /\ Tally(V) \in Aggregates
         /\ Within(Tally(V))
         /\ Tally(V).ballots = Cardinality(V)
         /\ \A o \in Options : Tally(V).votes[o] = Cardinality(ForOption(V, o))
<1>1. IsFiniteSet(Voters)
  BY SnapshotterAssumption
<1>2. IsFiniteSet(V) /\ Cardinality(V) <= Cardinality(Voters)
  BY <1>1, FS_Subset
<1>3. Cardinality(Voters) \in Nat /\ Cardinality(V) \in Nat
  BY <1>1, <1>2, FS_CardinalityType
<1>4. ASSUME NEW o \in Options
      PROVE  /\ IsFiniteSet(ForOption(V, o))
             /\ Cardinality(ForOption(V, o)) \in Nat
             /\ Cardinality(ForOption(V, o)) <= Cardinality(V)
  <2>1. ForOption(V, o) \subseteq V
    BY DEF ForOption
  <2> QED
    BY <1>2, <2>1, FS_Subset, FS_CardinalityType
<1>5. Tally(V) = [votes |-> [o \in Options |-> Cardinality(ForOption(V, o))],
                  ballots |-> Cardinality(V)]
  BY DEF Tally, ForOption
<1>6. /\ Tally(V).ballots = Cardinality(V)
      /\ \A o \in Options : Tally(V).votes[o] = Cardinality(ForOption(V, o))
  BY <1>5
<1>7. Tally(V) \in Aggregate
  BY <1>3, <1>4, <1>5 DEF Aggregate
<1>8. Tally(V) \in Aggregates
  BY <1>2, <1>3, <1>4, <1>5 DEF Aggregates
<1>9. Within(Tally(V))
  BY <1>4, <1>6 DEF Within
<1> QED
  BY <1>2, <1>4, <1>6, <1>7, <1>8, <1>9

LEMMA TallyGrows ==
  ASSUME NEW V \in SUBSET Voters, NEW W \in SUBSET Voters, V \subseteq W
  PROVE  Below(Tally(V), Tally(W))
<1>1. Cardinality(V) <= Cardinality(W)
  BY TallyIsAggregate, FS_Subset
<1>2. ASSUME NEW o \in Options
      PROVE  Cardinality(ForOption(V, o)) <= Cardinality(ForOption(W, o))
  <2>1. ForOption(V, o) \subseteq ForOption(W, o)
    BY DEF ForOption
  <2> QED
    BY <2>1, TallyIsAggregate, FS_Subset
<1> QED
  BY <1>1, <1>2, TallyIsAggregate DEF Below

LEMMA DisjointSum ==
  ASSUME NEW S, NEW T, IsFiniteSet(S), IsFiniteSet(T), S \cap T = {}
  PROVE  Cardinality(S \cup T) = Cardinality(S) + Cardinality(T)
<1>1. Cardinality(S \cup T) = Cardinality(S) + Cardinality(T) - Cardinality({})
  BY FS_Union
<1>2. Cardinality({}) = 0
  BY FS_EmptySet
<1>3. Cardinality(S) \in Nat /\ Cardinality(T) \in Nat
  BY FS_CardinalityType
<1> QED
  BY <1>1, <1>2, <1>3

(* The shards of a poll add up, because no voter is in two of them.          *)
LEMMA TallyAddsUp ==
  ASSUME NEW V \in SUBSET Voters, NEW W \in SUBSET Voters, V \cap W = {}
  PROVE  AddShard(Tally(V), Tally(W)) = Tally(V \cup W)
<1> DEFINE u == V \cup W
<1>0. u \in SUBSET Voters
  OBVIOUS
<1>1. Tally(u).ballots = Tally(V).ballots + Tally(W).ballots
  BY <1>0, TallyIsAggregate, DisjointSum
<1>2. ASSUME NEW o \in Options
      PROVE  Tally(u).votes[o] = Tally(V).votes[o] + Tally(W).votes[o]
  <2>1. /\ ForOption(u, o) = ForOption(V, o) \cup ForOption(W, o)
        /\ ForOption(V, o) \cap ForOption(W, o) = {}
    BY DEF ForOption
  <2>2. /\ Tally(u).votes[o] = Cardinality(ForOption(u, o))
        /\ Tally(V).votes[o] = Cardinality(ForOption(V, o))
        /\ Tally(W).votes[o] = Cardinality(ForOption(W, o))
        /\ IsFiniteSet(ForOption(V, o)) /\ IsFiniteSet(ForOption(W, o))
    BY <1>0, TallyIsAggregate
  <2> QED
    BY <2>1, <2>2, DisjointSum
<1>3. Tally(u) = [votes |-> [o \in Options |-> Tally(u).votes[o]], ballots |-> Tally(u).ballots]
  BY <1>0, TallyIsAggregate DEF Aggregate
<1> HIDE DEF u
<1>4. Tally(u) = AddShard(Tally(V), Tally(W))
  BY <1>1, <1>2, <1>3 DEF AddShard
<1> QED
  BY <1>4 DEF u

LEMMA NoVotesIsEmpty == Tally({}) = NoVotes
<1>1. \A o \in Options : ForOption({}, o) = {}
  BY DEF ForOption
<1>2. Cardinality({}) = 0
  BY FS_EmptySet
<1> QED
  BY <1>1, <1>2 DEF Tally, NoVotes, ForOption

-----------------------------------------------------------------------------
(* The inductive invariant.  SeenInv: an instance whose version is current   *)
(* has the current row in its hands, and is where that row's status sends    *)
(* it.                                                                       *)
Snapshotting == {"read", "get", "upsert", "lag", "close"}

SeenAt(i) ==
  /\ seen[i].version <= row.version
  /\ seen[i].version = row.version => seen[i] = row
  /\ pc[i] = "open" => seen[i].status = "scheduled"
  /\ pc[i] \in Snapshotting => seen[i].status = "open"

SeenInv == \A i \in Snapshotters : SeenAt(i)

(* The counters of Redis are exact, and what an instance has added up so far *)
(* does not exceed them for the shards it has read.                          *)
CounterInv == \A s \in Shards : counter[s] = Tally(InShards(counted, {s}))

ReadAt(i) ==
  /\ pc[i] # "read" => unread[i] = {}
  /\ Below(agg[i], Tally(Outside(counted, unread[i])))
  /\ Within(agg[i])

ReadInv == \A i \in Snapshotters : ReadAt(i)

ResultInv == Below(result, Tally(counted)) /\ Within(result)

OthersInv == others.left + others.lag <= OtherVotes

SnapshotInv ==
  AdminInv /\ TypeOK /\ SeenInv /\ CounterInv /\ OthersInv /\ ReadInv /\ ResultInv

(* The last snapshot.  From the lag on, as long as the version is current,   *)
(* no vote can land: what is read is everything there will ever be.          *)
FinalAt(i) ==
  /\ at[i] <= now
  /\ pc[i] = "close" => final[i]
  /\ pc[i] = "lag" \/ final[i] => at[i] >= seen[i].closesAt + Grace
  /\ final[i] => pc[i] \in Snapshotting
  /\ final[i] /\ seen[i].version = row.version =>
       /\ backlog = {}
       /\ pc[i] \in {"read", "get", "upsert"} => agg[i] = Tally(Outside(counted, unread[i]))
       /\ pc[i] = "close" => result = Tally(counted)

FinalInv == \A i \in Snapshotters : FinalAt(i)

ReaderInv ==
  /\ reader \in {"closed", "archived"} => row.status = "closed"
  /\ shown # {} => row.status = "closed"
  /\ FinalAnswerIsExact

ClosedInv == FinalIsExact /\ ReaderInv

-----------------------------------------------------------------------------
(* Shapes of a step.                                                         *)
PcValue == {"idle", "failed", "handle", "open", "read", "get", "upsert", "lag", "close"}

TickType ==
  /\ pc \in [Snapshotters -> PcValue]
  /\ seen \in [Snapshotters -> Row]
  /\ at \in [Snapshotters -> 0 .. MaxTime]
  /\ unread \in [Snapshotters -> SUBSET Shards]
  /\ agg \in [Snapshotters -> Aggregate]
  /\ final \in [Snapshotters -> BOOLEAN]

(* Instance j takes no part in the step.                                     *)
Untouched(j) ==
  /\ pc'[j] = pc[j] /\ seen'[j] = seen[j] /\ at'[j] = at[j]
  /\ unread'[j] = unread[j] /\ agg'[j] = agg[j] /\ final'[j] = final[j]

(* Instance i rests after the step.                                          *)
Rested(i) ==
  /\ pc'[i] \in {"idle", "failed"} /\ seen'[i] = NoRow /\ at'[i] = 0
  /\ unread'[i] = {} /\ agg'[i] = NoVotes /\ ~final'[i]

(* Instance i begins to aggregate.                                           *)
Begun(i) ==
  /\ pc'[i] = "read" /\ seen'[i] = seen[i]
  /\ unread'[i] = Shards /\ agg'[i] = NoVotes

LEMMA BoundedIsSmall ==
  ASSUME NEW a \in Aggregate, NEW V \in SUBSET Voters, Below(a, Tally(V))
  PROVE  a \in Aggregates
<1>1. Tally(V) \in Aggregates /\ Tally(V) \in Aggregate
  BY TallyIsAggregate
<1>2. Cardinality(Voters) \in Nat
  BY SnapshotterAssumption, FS_CardinalityType
<1> QED
  BY <1>1, <1>2 DEF Below, Aggregate, Aggregates

LEMMA SmallIsAggregate == Aggregates \subseteq Aggregate
<1>1. Cardinality(Voters) \in Nat
  BY SnapshotterAssumption, FS_CardinalityType
<1> QED
  BY <1>1 DEF Aggregate, Aggregates

LEMMA NoVotesFacts == NoVotes \in Aggregate /\ Within(NoVotes)
BY NoVotesIsEmpty, TallyIsAggregate

LEMMA TypeOKTicks == TypeOK => TickType /\ result \in Aggregate /\ counter \in [Shards -> Aggregate]
BY SmallIsAggregate DEF TypeOK, TickType, PcValue

LEMMA EndTickShape ==
  ASSUME TickType, NEW i \in Snapshotters, NEW outcome \in {"idle", "failed"}, EndTick(i, outcome)
  PROVE  TickType' /\ Rested(i) /\ \A j \in Snapshotters \ {i} : Untouched(j)
<1>1. NoRow \in Row /\ 0 \in 0 .. MaxTime
  BY WindowAssumption DEF NoRow, Row, Status
<1>2. TickType'
  BY <1>1, NoVotesFacts DEF EndTick, TickType, PcValue
<1>3. Rested(i) /\ \A j \in Snapshotters \ {i} : Untouched(j)
  BY DEF EndTick, TickType, Rested, Untouched
<1> QED
  BY <1>2, <1>3

LEMMA BeginShape ==
  ASSUME TickType, seen' = seen, at' \in [Snapshotters -> 0 .. MaxTime],
         NEW i \in Snapshotters, \A j \in Snapshotters \ {i} : at'[j] = at[j],
         NEW isFinal \in BOOLEAN, BeginTickOnce(i, isFinal)
  PROVE  /\ TickType' /\ Begun(i) /\ final'[i] = isFinal
         /\ \A j \in Snapshotters \ {i} : Untouched(j)
<1>1. TickType'
  BY NoVotesFacts DEF BeginTickOnce, TickType, PcValue
<1>2. Begun(i) /\ final'[i] = isFinal /\ \A j \in Snapshotters \ {i} : Untouched(j)
  BY DEF BeginTickOnce, TickType, Begun, Untouched
<1> QED
  BY <1>1, <1>2

-----------------------------------------------------------------------------
(* Every write of the row is one the state machine allows.                   *)
LEMMA InstanceRowStep ==
  ASSUME SnapshotInv, NEW i \in Snapshotters, SnapshotStep(i) \/ Fail(i)
  PROVE  RowStep /\ now' = now /\ admin' = admin /\ UNCHANGED voteVars
<1>0. /\ AdminInv /\ seen[i] \in Row /\ SeenAt(i)
  BY DEF SnapshotInv, TypeOK, SeenInv
<1>1. CASE OpenOnSchedule(i)
  <2>1. pc[i] = "open" /\ Transition("open", seen[i].version)
    BY <1>1 DEF OpenOnSchedule
  <2>2. RowStep
    BY <1>0, <2>1, TransitionRowStep DEF SeenAt
  <2> QED
    BY <1>1, <2>2 DEF OpenOnSchedule, voteVars
<1>2. CASE CloseFinal(i)
  <2>1. pc[i] = "close" /\ Transition("closed", seen[i].version)
    BY <1>2 DEF CloseFinal
  <2>2. RowStep
    BY <1>0, <2>1, TransitionRowStep DEF SeenAt, Snapshotting
  <2> QED
    BY <1>2, <2>2 DEF CloseFinal, voteVars
<1>3. CASE \/ ListActive(i) \/ Handle(i) \/ Fail(i) \/ GetAndMerge(i) \/ Upsert(i)
           \/ ReadLag(i) \/ \E s \in Shards : ReadShard(i, s)
  BY <1>3 DEF ListActive, Handle, Fail, GetAndMerge, Upsert, ReadLag, ReadShard,
              storeVars, voteVars, RowStep
<1> QED
  BY <1>1, <1>2, <1>3 DEF SnapshotStep

LEMMA NextRowStep ==
  ASSUME SnapshotInv, [Next]_vars
  PROVE  RowStep /\ AdminInv'
<1>0. AdminInv
  BY DEF SnapshotInv
<1>1. CASE Tick
  BY <1>0, <1>1, TickKeepsAdminInv DEF Tick, RowStep
<1>2. CASE AdminStep
  BY <1>0, <1>2, AdminRowStep, AdminKeepsAdminInv DEF RowStep
<1>3. CASE UNCHANGED storeVars
  BY <1>0, <1>3, OthersKeepAdminInv DEF storeVars, RowStep
<1>4. ASSUME NEW i \in Snapshotters, SnapshotStep(i) \/ Fail(i)
      PROVE  RowStep /\ AdminInv'
  BY <1>0, <1>4, InstanceRowStep, OthersKeepAdminInv
<1> QED
  BY <1>1, <1>2, <1>3, <1>4
     DEF Next, Land, Count, Commit, OtherLands, OtherCommits, ResultsRow, ResultsGet, vars

(* The counters after a vote is counted.                                     *)
LEMMA CountIsExact ==
  ASSUME TypeOK, CounterInv, NEW v \in Voters, Count(v)
  PROVE  CounterInv' /\ counter' \in [Shards -> Aggregate]
<1> DEFINE sv == ShardOf[v]
<1>0. /\ counted \in SUBSET Voters /\ v \notin counted /\ sv \in Shards
      /\ counted' = counted \cup {v} /\ counter \in [Shards -> Aggregate]
      /\ counter' = [counter EXCEPT ![sv] = AddShard(counter[sv], Tally({v}))]
  BY TypeOKTicks, SnapshotterAssumption DEF TypeOK, Count
<1> HIDE DEF sv
<1>1. ASSUME NEW s \in Shards
      PROVE  counter'[s] = Tally(InShards(counted', {s}))
  <2> DEFINE V == InShards(counted, {s})
  <2>1. V \in SUBSET Voters /\ {v} \in SUBSET Voters /\ V \cap {v} = {}
    BY <1>0 DEF InShards
  <2>2. CASE s = sv
    <3>1. InShards(counted', {s}) = V \cup {v}
      BY <1>0, <2>2 DEF InShards, sv
    <3>2. counter[s] = Tally(V)
      BY DEF CounterInv
    <3>3. counter'[s] = AddShard(Tally(V), Tally({v}))
      BY <1>0, <2>2, <3>2
    <3> HIDE DEF V
    <3> QED
      BY <2>1, <3>1, <3>3, TallyAddsUp
  <2>3. CASE s # sv
    <3>1. InShards(counted', {s}) = V
      BY <1>0, <2>3 DEF InShards, sv
    <3> QED
      BY <1>0, <2>3, <3>1 DEF CounterInv
  <2> QED
    BY <2>2, <2>3
<1>2. ASSUME NEW s \in Shards PROVE counter'[s] \in Aggregate
  <2>1. InShards(counted', {s}) \in SUBSET Voters
    BY <1>0 DEF InShards
  <2> QED
    BY <1>1, <2>1, TallyIsAggregate
<1>3. CounterInv'
  BY <1>1 DEF CounterInv
<1>4. counter' \in [Shards -> Aggregate]
  BY <1>0, <1>2
<1> QED
  BY <1>3, <1>4

(* No step takes a vote back.                                                *)
LEMMA VotesStep ==
  ASSUME SnapshotInv, [Next]_vars
  PROVE  /\ CounterInv' /\ counter' \in [Shards -> Aggregate]
         /\ counted \subseteq counted' /\ counted' \subseteq Voters /\ backlog' \subseteq Voters
         /\ others' \in [left : 0 .. OtherVotes, lag : 0 .. OtherVotes] /\ OthersInv'
<1>0. /\ TypeOK /\ CounterInv /\ OthersInv /\ counter \in [Shards -> Aggregate]
      /\ counted \subseteq Voters /\ backlog \subseteq Voters
      /\ others \in [left : 0 .. OtherVotes, lag : 0 .. OtherVotes]
      /\ OtherVotes \in Nat
  BY TypeOKTicks, SnapshotterAssumption DEF SnapshotInv, TypeOK
<1>1. ASSUME NEW v \in Voters, Count(v)
      PROVE  CounterInv' /\ counter' \in [Shards -> Aggregate] /\ counted' = counted \cup {v}
             /\ backlog' = backlog /\ others' = others
  BY <1>0, <1>1, CountIsExact DEF Count
<1>2. CASE UNCHANGED <<counted, counter>> /\ backlog' \subseteq Voters /\ others' = others
  BY <1>0, <1>2 DEF CounterInv, OthersInv
<1>3. CASE OtherLands \/ OtherCommits
  <2>1. others' \in [left : 0 .. OtherVotes, lag : 0 .. OtherVotes] /\ OthersInv'
    <3>1. CASE OtherLands
      BY <1>0, <3>1 DEF OtherLands, OthersInv
    <3>2. CASE OtherCommits
      BY <1>0, <3>2 DEF OtherCommits, OthersInv
    <3> QED
      BY <1>3, <3>1, <3>2
  <2>2. UNCHANGED <<counted, counter, backlog>>
    BY <1>3 DEF OtherLands, OtherCommits
  <2> QED
    BY <1>0, <2>1, <2>2 DEF CounterInv
<1>4. ASSUME NEW i \in Snapshotters, SnapshotStep(i) \/ Fail(i)
      PROVE  UNCHANGED voteVars
  BY <1>4, InstanceRowStep
<1>5. ASSUME NEW v \in Voters, Land(v) \/ Commit(v)
      PROVE  UNCHANGED <<counted, counter, others>> /\ backlog' \subseteq Voters
  BY <1>0, <1>5 DEF Land, Commit
<1>6. CASE UNCHANGED voteVars
  <2>1. UNCHANGED <<counted, counter, backlog, others>>
    BY <1>6 DEF voteVars
  <2> QED
    BY <1>0, <1>2, <2>1
<1>7. CASE \E v \in Voters : Land(v) \/ Count(v) \/ Commit(v)
  <2>1. CASE \E v \in Voters : Count(v)
    BY <1>0, <1>1, <2>1 DEF OthersInv
  <2>2. CASE \E v \in Voters : Land(v) \/ Commit(v)
    BY <1>2, <1>5, <2>2
  <2> QED
    BY <1>7, <2>1, <2>2
<1>8. \/ UNCHANGED voteVars \/ OtherLands \/ OtherCommits
      \/ \E v \in Voters : Land(v) \/ Count(v) \/ Commit(v)
  BY <1>4 DEF Next, ResultsRow, ResultsGet, vars
<1> QED
  BY <1>3, <1>6, <1>7, <1>8

(* An instance that takes no part keeps its part of the invariant.           *)
LEMMA UntouchedKeeps ==
  ASSUME SnapshotInv, [Next]_vars, NEW j \in Snapshotters, Untouched(j)
  PROVE  SeenAt(j)' /\ ReadAt(j)'
<1>1. /\ row'.version >= row.version
      /\ row'.version = row.version => row' = row
      /\ row.version \in Nat /\ row'.version \in Nat
  BY NextRowStep, VersionNamesRow DEF SnapshotInv, AdminInv, StoreType, Row
<1>2. SeenAt(j) /\ ReadAt(j) /\ TickType /\ seen[j].version \in Nat
  BY TypeOKTicks DEF SnapshotInv, SeenInv, ReadInv, TickType, Row
<1>3. SeenAt(j)'
  BY <1>1, <1>2 DEF SeenAt, Untouched, Snapshotting
<1>4. ReadAt(j)'
  <2> DEFINE V == Outside(counted, unread[j])
             W == Outside(counted', unread[j])
  <2>1. V \subseteq W /\ V \in SUBSET Voters /\ W \in SUBSET Voters
    BY VotesStep DEF Outside
  <2>2. Outside(counted', unread'[j]) = W
    BY DEF Untouched
  <2> HIDE DEF V, W
  <2>3. Below(Tally(V), Tally(W)) /\ Tally(V) \in Aggregate /\ Tally(W) \in Aggregate
    BY <2>1, TallyGrows, TallyIsAggregate
  <2>4. agg[j] \in Aggregate /\ Below(agg[j], Tally(V))
    BY <1>2 DEF ReadAt, TickType, V
  <2>5. Below(agg[j], Tally(W))
    BY <2>3, <2>4, AggregateOrder
  <2> QED
    BY <1>2, <2>2, <2>5 DEF ReadAt, Untouched
<1> QED
  BY <1>3, <1>4

LEMMA NothingReadYet ==
  ASSUME NEW V \in SUBSET Voters, NEW X \in SUBSET Shards
  PROVE  Below(NoVotes, Tally(Outside(V, X))) /\ Within(NoVotes)
<1>1. {} \in SUBSET Voters /\ {} \subseteq Outside(V, X) /\ Outside(V, X) \in SUBSET Voters
  BY DEF Outside
<1> QED
  BY <1>1, TallyGrows, NoVotesIsEmpty, NoVotesFacts

LEMMA RestedKeeps ==
  ASSUME SnapshotInv, [Next]_vars, NEW i \in Snapshotters, Rested(i)
  PROVE  SeenAt(i)' /\ ReadAt(i)'
<1>1. row'.version \in Nat /\ row'.version >= 1
  BY NextRowStep DEF AdminInv, StoreType, Row
<1>2. SeenAt(i)'
  BY <1>1 DEF SeenAt, Rested, NoRow, Snapshotting
<1>3. counted' \in SUBSET Voters
  BY VotesStep
<1>4. ReadAt(i)'
  BY <1>3, NothingReadYet DEF ReadAt, Rested
<1> QED
  BY <1>2, <1>4

LEMMA BegunKeeps ==
  ASSUME SnapshotInv, NEW i \in Snapshotters, Begun(i), row' = row,
         counted' = counted, seen[i].status = "open"
  PROVE  SeenAt(i)' /\ ReadAt(i)'
<1>1. counted \in SUBSET Voters /\ SeenAt(i)
  BY DEF SnapshotInv, TypeOK, SeenInv
<1>2. SeenAt(i)'
  BY <1>1 DEF SeenAt, Begun, Snapshotting
<1>3. ReadAt(i)'
  BY <1>1, NothingReadYet DEF ReadAt, Begun
<1> QED
  BY <1>2, <1>3

(* One more shard.                                                           *)
LEMMA ReadShardAdds ==
  ASSUME SnapshotInv, NEW i \in Snapshotters, NEW s \in unread[i]
  PROVE  /\ Outside(counted, unread[i] \ {s}) \in SUBSET Voters
         /\ counter[s] \in Aggregate /\ Within(counter[s])
         /\ AddShard(Tally(Outside(counted, unread[i])), counter[s])
              = Tally(Outside(counted, unread[i] \ {s}))
<1> DEFINE V == Outside(counted, unread[i])
           W == InShards(counted, {s})
<1>1. s \in Shards /\ counted \in SUBSET Voters
  BY DEF SnapshotInv, TypeOK
<1>2. counter[s] = Tally(W)
  BY <1>1 DEF SnapshotInv, CounterInv
<1>3. /\ V \in SUBSET Voters /\ W \in SUBSET Voters /\ V \cap W = {}
      /\ V \cup W = Outside(counted, unread[i] \ {s})
  BY <1>1 DEF Outside, InShards
<1> HIDE DEF V, W
<1>4. AddShard(Tally(V), Tally(W)) = Tally(V \cup W)
  BY <1>3, TallyAddsUp
<1>5. Tally(W) \in Aggregate /\ Within(Tally(W))
  BY <1>3, TallyIsAggregate
<1> QED
  BY <1>2, <1>3, <1>4, <1>5 DEF V

(* What a step of instance i preserves of its own part.                      *)
LEMMA InstanceKeeps ==
  ASSUME SnapshotInv, [Next]_vars, NEW i \in Snapshotters, SnapshotStep(i) \/ Fail(i)
  PROVE  /\ TickType' /\ \A j \in Snapshotters \ {i} : Untouched(j)
         /\ SeenAt(i)' /\ ReadAt(i)'
         /\ \/ result' = result
            \/ pc[i] = "upsert" /\ result' = MergeMax(result, agg[i])
<1>0. /\ TickType /\ SeenAt(i) /\ ReadAt(i) /\ result \in Aggregate
      /\ row \in Row /\ row.version >= 1 /\ now \in 1 .. MaxTime
      /\ agg[i] \in Aggregate /\ counted \in SUBSET Voters
      /\ Outside(counted, {}) = counted
  BY TypeOKTicks
     DEF SnapshotInv, AdminInv, SeenInv, ReadInv, StoreType, TickType, TypeOK, Outside
<1>1. counted' = counted
  BY InstanceRowStep DEF voteVars
<1>2. ASSUME NEW outcome \in {"idle", "failed"}, EndTick(i, outcome)
      PROVE  /\ TickType' /\ \A j \in Snapshotters \ {i} : Untouched(j)
             /\ SeenAt(i)' /\ ReadAt(i)'
  BY <1>0, <1>2, EndTickShape, RestedKeeps
<1>3. CASE ListActive(i)
  <2>1. /\ TickType' /\ \A j \in Snapshotters \ {i} : Untouched(j)
        /\ pc'[i] = "handle" /\ seen'[i] = row /\ unread' = unread /\ agg' = agg
        /\ row' = row /\ result' = result /\ pc[i] # "read"
    BY <1>0, <1>3 DEF ListActive, TickType, Untouched, storeVars, PcValue
  <2>2. SeenAt(i)'
    BY <1>0, <2>1 DEF SeenAt, Snapshotting, Row
  <2>3. ReadAt(i)'
    BY <1>0, <1>1, <2>1 DEF ReadAt
  <2> QED
    BY <2>1, <2>2, <2>3
<1>4. CASE Handle(i)
  <2>0. /\ pc[i] = "handle" /\ row' = row /\ result' = result
    BY <1>4 DEF Handle, storeVars
  <2>1. CASE /\ ShouldOpenAt(seen[i].status, RowWindow(seen[i]), now)
             /\ pc' = [pc EXCEPT ![i] = "open"]
             /\ UNCHANGED <<seen, at, unread, agg, final>>
    <3>1. /\ TickType' /\ \A j \in Snapshotters \ {i} : Untouched(j) /\ pc'[i] = "open"
      BY <1>0, <2>1 DEF TickType, Untouched, PcValue
    <3>2. SeenAt(i)'
      BY <1>0, <2>0, <2>1, <3>1 DEF SeenAt, Snapshotting, ShouldOpenAt
    <3>3. ReadAt(i)'
      BY <1>0, <1>1, <2>0, <2>1, <3>1 DEF ReadAt
    <3> QED
      BY <2>0, <3>1, <3>2, <3>3
  <2>2. CASE Rest(i)
    BY <1>2, <2>0, <2>2 DEF Rest
  <2>3. CASE /\ seen[i].status = "open"
             /\ at' = [at EXCEPT ![i] = now]
             /\ BeginTickOnce(i, FALSE)
             /\ UNCHANGED seen
    <3>1. /\ at' \in [Snapshotters -> 0 .. MaxTime]
          /\ \A j \in Snapshotters \ {i} : at'[j] = at[j]
      BY <1>0, <2>3 DEF TickType
    <3>2. TickType' /\ Begun(i) /\ \A j \in Snapshotters \ {i} : Untouched(j)
      BY <1>0, <2>3, <3>1, BeginShape
    <3> QED
      BY <1>1, <2>0, <2>3, <3>2, BegunKeeps
  <2> QED
    BY <1>4, <2>1, <2>2, <2>3 DEF Handle
<1>5. CASE OpenOnSchedule(i) \/ CloseFinal(i)
  BY <1>2, <1>5 DEF OpenOnSchedule, CloseFinal, Rest
<1>6. ASSUME NEW s \in Shards, ReadShard(i, s)
      PROVE  /\ TickType' /\ \A j \in Snapshotters \ {i} : Untouched(j)
             /\ SeenAt(i)' /\ ReadAt(i)' /\ result' = result
  <2>0. /\ pc[i] = "read" /\ s \in unread[i] /\ row' = row /\ result' = result
    BY <1>6 DEF ReadShard, storeVars
  <2> DEFINE V == Outside(counted, unread[i])
             W == Outside(counted, unread[i] \ {s})
  <2>1. /\ W \in SUBSET Voters /\ V \in SUBSET Voters
        /\ counter[s] \in Aggregate /\ Within(counter[s])
        /\ AddShard(Tally(V), counter[s]) = Tally(W)
    BY <1>0, <2>0, ReadShardAdds DEF Outside
  <2>2. /\ agg'[i] = AddShard(agg[i], counter[s]) /\ unread'[i] = unread[i] \ {s}
        /\ pc'[i] = IF unread[i] = {s} THEN "get" ELSE "read"
        /\ seen' = seen /\ \A j \in Snapshotters \ {i} : Untouched(j)
    BY <1>0, <1>6 DEF ReadShard, TickType, Untouched
  <2>3. AddShard(agg[i], counter[s]) \in Aggregate
    BY <1>0, <2>1, AddIsMonotone
  <2>4. TickType'
    BY <1>0, <1>6, <2>3 DEF ReadShard, TickType, PcValue
  <2>5. SeenAt(i)'
    BY <1>0, <2>0, <2>2 DEF SeenAt, Snapshotting
  <2>6. Below(agg[i], Tally(V)) /\ Within(agg[i])
    BY <1>0 DEF ReadAt
  <2>7. Outside(counted', unread'[i]) = W
    BY <1>1, <2>2
  <2> HIDE DEF V, W
  <2>8. Below(AddShard(agg[i], counter[s]), Tally(W))
    BY <1>0, <2>1, <2>6, AddIsMonotone, TallyIsAggregate
  <2>9. Within(AddShard(agg[i], counter[s]))
    BY <1>0, <2>1, <2>6, AddIsMonotone
  <2>10. ReadAt(i)'
    BY <2>2, <2>7, <2>8, <2>9 DEF ReadAt
  <2> QED
    BY <2>0, <2>2, <2>4, <2>5, <2>10
<1>7. CASE GetAndMerge(i)
  <2>0. /\ pc[i] = "get" /\ row' = row /\ result' = result
    BY <1>7 DEF GetAndMerge, storeVars
  <2>1. unread[i] = {} /\ Below(agg[i], Tally(counted)) /\ Within(agg[i])
    BY <1>0, <2>0 DEF ReadAt
  <2>2. Below(result, Tally(counted)) /\ Within(result) /\ Tally(counted) \in Aggregate
    BY <1>0, TallyIsAggregate DEF SnapshotInv, ResultInv
  <2> DEFINE m == MergeMax(agg[i], result)
  <2>3. m \in Aggregate /\ Below(m, Tally(counted)) /\ Within(m)
    BY <1>0, <2>1, <2>2, MergeIsLub
  <2>4. /\ agg' = [agg EXCEPT ![i] = m] /\ pc' = [pc EXCEPT ![i] = "upsert"]
        /\ UNCHANGED <<seen, at, unread, final>>
    BY <1>7 DEF GetAndMerge
  <2> HIDE DEF m
  <2>5. /\ agg'[i] = m /\ pc'[i] = "upsert" /\ unread'[i] = {} /\ TickType'
        /\ \A j \in Snapshotters \ {i} : Untouched(j)
    BY <1>0, <2>1, <2>3, <2>4 DEF TickType, Untouched, PcValue
  <2>6. SeenAt(i)'
    BY <1>0, <2>0, <2>4, <2>5 DEF SeenAt, Snapshotting
  <2>7. ReadAt(i)'
    BY <1>0, <1>1, <2>3, <2>5 DEF ReadAt
  <2> QED
    BY <2>0, <2>5, <2>6, <2>7
<1>8. CASE Upsert(i)
  <2>0. pc[i] = "upsert" /\ row' = row /\ result' = MergeMax(result, agg[i])
    BY <1>8 DEF Upsert, storeVars, Greatest
  <2>1. CASE Rest(i)
    BY <1>2, <2>0, <2>1 DEF Rest
  <2>2. CASE /\ AfterUpsert(i) # "idle"
             /\ pc' = [pc EXCEPT ![i] = AfterUpsert(i)]
             /\ UNCHANGED <<seen, at, unread, agg, final>>
    <3>0. AfterUpsert(i) \in {"close", "lag"}
      BY <2>2 DEF AfterUpsert
    <3>1. /\ TickType' /\ \A j \in Snapshotters \ {i} : Untouched(j)
          /\ pc'[i] \in {"close", "lag"}
      BY <1>0, <2>2, <3>0 DEF TickType, Untouched, PcValue
    <3>2. SeenAt(i)'
      BY <1>0, <2>0, <2>2, <3>1 DEF SeenAt, Snapshotting
    <3>3. ReadAt(i)'
      BY <1>0, <1>1, <2>0, <2>2, <3>1 DEF ReadAt
    <3> QED
      BY <2>0, <3>1, <3>2, <3>3
  <2> QED
    BY <1>8, <2>1, <2>2 DEF Upsert
<1>9. CASE ReadLag(i)
  <2>0. pc[i] = "lag" /\ row' = row /\ result' = result /\ seen[i].status = "open"
    BY <1>0, <1>9 DEF ReadLag, storeVars, SeenAt, Snapshotting
  <2>1. CASE BeginTickOnce(i, TRUE) /\ UNCHANGED <<seen, at>>
    <3>1. at' \in [Snapshotters -> 0 .. MaxTime]
      BY <1>0, <2>1 DEF TickType
    <3>2. TickType' /\ Begun(i) /\ \A j \in Snapshotters \ {i} : Untouched(j)
      BY <1>0, <2>1, <3>1, BeginShape
    <3> QED
      BY <1>1, <2>0, <3>2, BegunKeeps
  <2>2. CASE Rest(i)
    BY <1>2, <2>0, <2>2 DEF Rest
  <2> QED
    BY <1>9, <2>1, <2>2 DEF ReadLag
<1>10. CASE Fail(i)
  BY <1>2, <1>10 DEF Fail
<1> QED
  BY <1>3, <1>4, <1>5, <1>6, <1>7, <1>8, <1>9, <1>10 DEF SnapshotStep

-----------------------------------------------------------------------------
LEMMA InitSnapshotInv == Init => SnapshotInv
<1> SUFFICES ASSUME Init PROVE SnapshotInv
  OBVIOUS
<1>1. AdminInv
  BY StoreInitInv DEF Init
<1>2. /\ counted = {} /\ backlog = {} /\ result = NoVotes /\ shown = {} /\ reader = "none"
      /\ others = [left |-> OtherVotes, lag |-> 0] /\ OtherVotes \in Nat
      /\ counter = [s \in Shards |-> NoVotes]
  BY SnapshotterAssumption DEF Init
<1>3. /\ NoVotes \in Aggregates /\ Below(NoVotes, NoVotes) /\ Within(NoVotes)
      /\ Tally({}) = NoVotes
      /\ \A X : InShards({}, X) = {} /\ Outside({}, X) = {}
  BY NoVotesIsEmpty, TallyIsAggregate, NoVotesFacts, AggregateOrder DEF InShards, Outside
<1>4. NoRow \in Row /\ 0 \in 0 .. MaxTime
  BY WindowAssumption DEF NoRow, Row, Status
<1>5. TypeOK
  <2>1. /\ pc \in [Snapshotters -> {"idle", "failed", "handle", "open", "read", "get", "upsert", "lag", "close"}]
        /\ seen \in [Snapshotters -> Row]
        /\ at \in [Snapshotters -> 0 .. MaxTime]
        /\ unread \in [Snapshotters -> SUBSET Shards]
        /\ agg \in [Snapshotters -> Aggregates]
        /\ final \in [Snapshotters -> BOOLEAN]
    BY <1>3, <1>4 DEF Init
  <2>2. others \in [left : 0 .. OtherVotes, lag : 0 .. OtherVotes]
    BY <1>2
  <2>3. counter \in [Shards -> Aggregates]
    BY <1>2, <1>3
  <2> QED
    BY <1>1, <1>2, <1>3, <2>1, <2>2, <2>3 DEF TypeOK, AdminInv, StoreType, AdminRequest
<1>6. SeenInv
  BY <1>1 DEF Init, SeenInv, SeenAt, NoRow, Snapshotting, AdminInv, StoreType, Row
<1>7. CounterInv /\ ResultInv
  BY <1>2, <1>3 DEF CounterInv, ResultInv
<1>8. ReadInv
  BY <1>2, <1>3 DEF Init, ReadInv, ReadAt
<1>9. OthersInv
  BY <1>2 DEF OthersInv
<1> QED
  BY <1>1, <1>5, <1>6, <1>7, <1>8, <1>9 DEF SnapshotInv

(* Every write merges, so the stored result only grows, up to what Redis has.*)
LEMMA ResultStep ==
  ASSUME SnapshotInv, [Next]_vars
  PROVE  result' \in Aggregate /\ Below(result, result') /\ ResultInv'
<1>0. /\ result \in Aggregate /\ ResultInv /\ TickType /\ ReadInv
      /\ counted \in SUBSET Voters /\ Outside(counted, {}) = counted
  BY TypeOKTicks DEF SnapshotInv, TypeOK, Outside
<1>1. counted' \in SUBSET Voters /\ counted \subseteq counted'
  BY VotesStep
<1>2. /\ Tally(counted) \in Aggregate /\ Tally(counted') \in Aggregate
      /\ Below(Tally(counted), Tally(counted'))
  BY <1>0, <1>1, TallyIsAggregate, TallyGrows
<1>3. SUFFICES /\ result' \in Aggregate /\ Below(result, result')
               /\ Below(result', Tally(counted)) /\ Within(result')
  BY <1>2, AggregateOrder DEF ResultInv
<1>4. CASE result' = result
  BY <1>0, <1>4, AggregateOrder DEF ResultInv
<1>5. ASSUME NEW i \in Snapshotters, pc[i] = "upsert", result' = MergeMax(result, agg[i])
      PROVE  /\ result' \in Aggregate /\ Below(result, result')
             /\ Below(result', Tally(counted)) /\ Within(result')
  <2>1. agg[i] \in Aggregate /\ Below(agg[i], Tally(counted)) /\ Within(agg[i])
    BY <1>0, <1>5 DEF ReadInv, ReadAt, TickType
  <2> QED
    BY <1>0, <1>2, <1>5, <2>1, MergeIsLub DEF ResultInv
<1>6. result' = result \/ \E i \in Snapshotters : SnapshotStep(i) \/ Fail(i)
  BY DEF Next, Land, Count, Commit, OtherLands, OtherCommits, ResultsRow, ResultsGet, vars
<1> QED
  BY <1>4, <1>5, <1>6, InstanceKeeps

LEMMA NextSnapshotInv == SnapshotInv /\ [Next]_vars => SnapshotInv'
<1> SUFFICES ASSUME SnapshotInv, [Next]_vars PROVE SnapshotInv'
  OBVIOUS
<1>1. AdminInv'
  BY NextRowStep
<1>2. /\ CounterInv' /\ counter' \in [Shards -> Aggregate]
      /\ counted' \in SUBSET Voters /\ backlog' \in SUBSET Voters
      /\ others' \in [left : 0 .. OtherVotes, lag : 0 .. OtherVotes] /\ OthersInv'
  BY VotesStep
<1>3. result' \in Aggregate /\ ResultInv'
  BY ResultStep
<1>4. TickType' /\ SeenInv' /\ ReadInv'
  <2>1. CASE \E i \in Snapshotters : SnapshotStep(i) \/ Fail(i)
    <3>1. PICK i \in Snapshotters : SnapshotStep(i) \/ Fail(i)
      BY <2>1
    <3>2. /\ TickType' /\ \A j \in Snapshotters \ {i} : Untouched(j)
          /\ SeenAt(i)' /\ ReadAt(i)'
      BY <3>1, InstanceKeeps
    <3>3. \A j \in Snapshotters \ {i} : SeenAt(j)' /\ ReadAt(j)'
      BY <3>2, UntouchedKeeps
    <3> QED
      BY <3>2, <3>3 DEF SeenInv, ReadInv
  <2>2. CASE UNCHANGED tickVars
    <3>1. /\ \A j \in Snapshotters : Untouched(j)
          /\ TickType'
      BY <2>2, TypeOKTicks DEF tickVars, Untouched, SnapshotInv, TickType, PcValue
    <3> QED
      BY <3>1, UntouchedKeeps DEF SeenInv, ReadInv
  <2>3. UNCHANGED tickVars \/ \E i \in Snapshotters : SnapshotStep(i) \/ Fail(i)
    BY DEF Next, Land, Count, Commit, OtherLands, OtherCommits, ResultsRow, ResultsGet, vars
  <2> QED
    BY <2>1, <2>2, <2>3
<1>5. reader' \in Status \cup {"none"} /\ shown' \subseteq Aggregates
  <2>1. reader \in Status \cup {"none"} /\ shown \subseteq Aggregates /\ row.status \in Status
        /\ result \in Aggregates
    BY DEF SnapshotInv, TypeOK, Row
  <2>2. \/ UNCHANGED readVars \/ ResultsRow \/ ResultsGet
    BY DEF Next, vars
  <2> QED
    BY <2>1, <2>2 DEF readVars, ResultsRow, ResultsGet
<1>6. result' \in Aggregates
  BY <1>2, <1>3, BoundedIsSmall DEF ResultInv
<1>7. counter' \in [Shards -> Aggregates]
  <2>1. ASSUME NEW s \in Shards PROVE counter'[s] \in Aggregates
    <3>1. InShards(counted', {s}) \in SUBSET Voters
      BY <1>2 DEF InShards
    <3> QED
      BY <1>2, <3>1, TallyIsAggregate DEF CounterInv
  <2> QED
    BY <1>2, <2>1
<1>8. agg' \in [Snapshotters -> Aggregates]
  <2>1. ASSUME NEW j \in Snapshotters PROVE agg'[j] \in Aggregates
    <3>1. Outside(counted', unread'[j]) \in SUBSET Voters
      BY <1>2 DEF Outside
    <3> QED
      BY <1>4, <3>1, BoundedIsSmall DEF ReadInv, ReadAt, TickType
  <2> QED
    BY <1>4, <2>1 DEF TickType
<1>9. TypeOK'
  BY <1>1, <1>2, <1>4, <1>5, <1>6, <1>7, <1>8
     DEF TypeOK, AdminInv, StoreType, AdminRequest, TickType, PcValue
<1> QED
  BY <1>1, <1>2, <1>3, <1>4, <1>9 DEF SnapshotInv

LEMMA SnapshotInvariant == Spec => []SnapshotInv
BY InitSnapshotInv, NextSnapshotInv, PTL DEF Spec

(* Types of the poll row, the queues, the counters and every instance's tick.*)
THEOREM SnapshotterTypeCorrect == Spec => []TypeOK
<1>1. SnapshotInv => TypeOK
  BY DEF SnapshotInv
<1> QED
  BY <1>1, SnapshotInvariant, PTL

(* However instances interleave and fail, Postgres never has more than Redis:*)
(* MergeMax and GREATEST take the larger of two snapshots, each of which is  *)
(* bounded by the counters it was read from.                                 *)
THEOREM NeverDoubleCountsHolds == Spec => []NeverDoubleCounts
<1>1. SnapshotInv => NeverDoubleCounts
  BY DEF SnapshotInv, ResultInv, Below, NeverDoubleCounts
<1> QED
  BY <1>1, SnapshotInvariant, PTL

(* No option is shown above 100 percent, although a snapshot is torn across  *)
(* shards and merged counter by counter.                                     *)
THEOREM PercentHolds == Spec => []PercentWithinBounds
<1>1. SnapshotInv => PercentWithinBounds
  BY DEF SnapshotInv, ResultInv, Within, PercentWithinBounds
<1> QED
  BY <1>1, SnapshotInvariant, PTL

(* No write of a slower instance lowers what a faster one has stored.        *)
THEOREM ResultGrows == Spec => ResultNeverShrinks
<1>1. ASSUME SnapshotInv, [Next]_vars
      PROVE  /\ result'.ballots >= result.ballots
             /\ \A o \in Options : result'.votes[o] >= result.votes[o]
  <2>1. result \in Aggregate /\ result' \in Aggregate /\ Below(result, result')
    BY <1>1, ResultStep, TypeOKTicks DEF SnapshotInv
  <2> QED
    BY <2>1 DEF Below, Aggregate
<1> QED
  BY <1>1, SnapshotInvariant, PTL DEF Spec, ResultNeverShrinks

(* The version is guard enough: no stale writer, instance or admin, takes    *)
(* the poll off the edges of the state machine.                              *)
THEOREM StatusIsSafe == Spec => StatusFollowsFSM
<1>1. ASSUME SnapshotInv, [Next]_vars
      PROVE  row'.status # row.status => CanTransitionTo(row.status, row'.status)
  BY <1>1, NextRowStep DEF RowStep, Opens, Closes, Moves, NextRow, CanTransitionTo, transitions
<1> QED
  BY <1>1, SnapshotInvariant, PTL DEF Spec, StatusFollowsFSM

-----------------------------------------------------------------------------
(* The final result.  Once nothing can land, the votes are what they are.    *)
LEMMA VotesSettled ==
  ASSUME SnapshotInv, [Next]_vars, row.status = "open" => now >= row.closesAt + Late
  PROVE  /\ backlog' \subseteq backlog
         /\ backlog' \cup counted' = backlog \cup counted
         /\ backlog = {} => counted' = counted
<1>0. now \in Nat /\ row.closesAt + Late \in Nat
  BY SnapshotterAssumption, WindowAssumption DEF SnapshotInv, TypeOK, Row
<1>1. \A v \in Voters : ~Land(v)
  BY <1>0 DEF Land
<1>2. ASSUME NEW v \in Voters, Count(v) \/ Commit(v)
      PROVE  /\ backlog' \subseteq backlog
             /\ backlog' \cup counted' = backlog \cup counted
             /\ backlog = {} => counted' = counted
  BY <1>2 DEF Count, Commit
<1>3. ASSUME NEW i \in Snapshotters, SnapshotStep(i) \/ Fail(i)
      PROVE  UNCHANGED <<backlog, counted>>
  BY <1>3, InstanceRowStep DEF voteVars
<1>4. \/ UNCHANGED <<backlog, counted>>
      \/ \E v \in Voters : Count(v) \/ Commit(v)
  BY <1>1, <1>3 DEF Next, OtherLands, OtherCommits, ResultsRow, ResultsGet, vars, voteVars
<1> QED
  BY <1>2, <1>4

LEMMA TimeStep ==
  ASSUME SnapshotInv, [Next]_vars
  PROVE  now \in Nat /\ now' \in Nat /\ now' >= now
<1>0. now \in Nat
  BY WindowAssumption DEF SnapshotInv, TypeOK
<1>1. CASE Tick
  BY <1>0, <1>1 DEF Tick
<1>2. CASE now' = now
  BY <1>0, <1>2
<1>3. AdminStep => now' = now
  BY AdminRowStep DEF SnapshotInv
<1>4. ASSUME NEW i \in Snapshotters, SnapshotStep(i) \/ Fail(i)
      PROVE  now' = now
  BY <1>4, InstanceRowStep
<1> QED
  BY <1>1, <1>2, <1>3, <1>4
     DEF Next, Land, Count, Commit, OtherLands, OtherCommits, ResultsRow, ResultsGet, vars, storeVars

(* A result that has reached the tally of all votes stays there.             *)
LEMMA ResultSettled ==
  ASSUME SnapshotInv, [Next]_vars, NEW V \in SUBSET Voters,
         result = Tally(V), counted' \subseteq V
  PROVE  result' = Tally(V)
<1>1. counted' \in SUBSET Voters
  BY VotesStep
<1>2. /\ Tally(V) \in Aggregate /\ Tally(counted') \in Aggregate /\ result' \in Aggregate
      /\ Below(Tally(counted'), Tally(V))
  BY <1>1, TallyIsAggregate, TallyGrows, ResultStep
<1>3. Below(Tally(V), result') /\ Below(result', Tally(counted'))
  BY ResultStep DEF ResultInv
<1>4. Below(result', Tally(V))
  BY <1>2, <1>3, AggregateOrder
<1> QED
  BY <1>2, <1>3, <1>4, AggregateOrder

(* An instance that is past its lag check and holds the current version has  *)
(* waited for the last vote that can land.                                   *)
LEMMA FinalSettles ==
  ASSUME SnapshotInv, NEW j \in Snapshotters, FinalAt(j), pc[j] = "lag" \/ final[j],
         seen[j].version = row.version
  PROVE  seen[j] = row /\ now >= row.closesAt + Late
<1>1. seen[j] = row
  BY DEF SnapshotInv, SeenInv, SeenAt
<1>2. /\ at[j] \in Nat /\ now \in Nat /\ row.closesAt \in Nat
      /\ Grace \in Nat /\ Late \in Nat /\ Late <= Grace
  BY SnapshotterAssumption, WindowAssumption DEF SnapshotInv, TypeOK, Row
<1> QED
  BY <1>1, <1>2 DEF FinalAt

LEMMA UntouchedFinal ==
  ASSUME SnapshotInv, [Next]_vars, NEW j \in Snapshotters, Untouched(j), FinalAt(j)
  PROVE  FinalAt(j)'
<1>0. /\ now \in Nat /\ now' \in Nat /\ now' >= now /\ at[j] \in Nat
      /\ seen[j].version \in Nat /\ row.version \in Nat /\ row'.version \in Nat
      /\ seen[j].version <= row.version
      /\ row'.version >= row.version
      /\ counted \in SUBSET Voters
  BY TimeStep, NextRowStep, VersionNamesRow, WindowAssumption
     DEF SnapshotInv, TypeOK, SeenInv, SeenAt, AdminInv, StoreType, Row
<1>1. /\ at'[j] <= now'
      /\ pc'[j] = "close" => final'[j]
      /\ pc'[j] = "lag" \/ final'[j] => at'[j] >= seen'[j].closesAt + Grace
      /\ final'[j] => pc'[j] \in Snapshotting
  BY <1>0 DEF FinalAt, Untouched
<1>2. ASSUME final'[j], seen'[j].version = row'.version
      PROVE  /\ backlog' = {}
             /\ pc'[j] \in {"read", "get", "upsert"} => agg'[j] = Tally(Outside(counted', unread'[j]))
             /\ pc'[j] = "close" => result' = Tally(counted')
  <2>1. final[j] /\ seen[j].version = row.version
    BY <1>0, <1>2 DEF Untouched
  <2>2. now >= row.closesAt + Late /\ backlog = {}
    BY <2>1, FinalSettles DEF FinalAt
  <2>3. backlog' = {} /\ counted' = counted
    BY <2>2, VotesSettled
  <2>4. pc[j] \in {"read", "get", "upsert"} => agg'[j] = Tally(Outside(counted', unread'[j]))
    BY <2>1, <2>3 DEF FinalAt, Untouched
  <2>5. pc[j] = "close" => result' = Tally(counted')
    BY <1>0, <2>1, <2>3, ResultSettled DEF FinalAt
  <2> QED
    BY <2>3, <2>4, <2>5 DEF Untouched
<1> QED
  BY <1>1, <1>2 DEF FinalAt, Snapshotting

LEMMA RestedFinal ==
  ASSUME SnapshotInv, [Next]_vars, NEW i \in Snapshotters, Rested(i)
  PROVE  FinalAt(i)'
BY TimeStep DEF FinalAt, Rested, Snapshotting

(* One step per action of the instance that moves.                           *)
LEMMA InstanceFinal ==
  ASSUME LagComplete, SnapshotInv, [Next]_vars,
         NEW i \in Snapshotters, SnapshotStep(i) \/ Fail(i), FinalAt(i)
  PROVE  FinalAt(i)'
<1>0. /\ TickType /\ ReadAt(i) /\ result \in Aggregate /\ agg[i] \in Aggregate
      /\ counted \in SUBSET Voters /\ Outside(counted, {}) = counted
      /\ Tally(counted) \in Aggregate /\ Below(result, Tally(counted))
      /\ now \in 1 .. MaxTime /\ now \in Nat /\ at[i] \in Nat
      /\ Grace \in Nat /\ seen[i].closesAt \in Nat
  BY TypeOKTicks, TallyIsAggregate, WindowAssumption, SnapshotterAssumption
     DEF SnapshotInv, ReadInv, TypeOK, TickType, Outside, ResultInv, Row
<1>1. now' = now /\ counted' = counted /\ backlog' = backlog
  BY InstanceRowStep DEF voteVars
<1>2. ASSUME NEW outcome \in {"idle", "failed"}, EndTick(i, outcome)
      PROVE  FinalAt(i)'
  BY <1>0, <1>2, EndTickShape, RestedFinal
<1>3. CASE ListActive(i)
  <2>1. /\ pc[i] \in {"idle", "failed"} /\ pc'[i] = "handle"
        /\ at' = at /\ final' = final /\ now' = now
    BY <1>0, <1>1, <1>3 DEF ListActive, TickType
  <2>2. ~final[i]
    BY <2>1 DEF FinalAt, Snapshotting
  <2> QED
    BY <2>1, <2>2 DEF FinalAt
<1>4. CASE Handle(i)
  <2>0. pc[i] = "handle" /\ ~final[i]
    BY <1>4 DEF Handle, FinalAt, Snapshotting
  <2>1. CASE /\ pc' = [pc EXCEPT ![i] = "open"]
             /\ UNCHANGED <<seen, at, unread, agg, final>>
    <3>1. pc'[i] = "open" /\ at' = at /\ final' = final
      BY <1>0, <2>1 DEF TickType
    <3> QED
      BY <1>1, <2>0, <3>1 DEF FinalAt
  <2>2. CASE Rest(i)
    BY <1>2, <2>2 DEF Rest
  <2>3. CASE at' = [at EXCEPT ![i] = now] /\ BeginTickOnce(i, FALSE)
    <3>1. pc'[i] = "read" /\ at'[i] = now /\ ~final'[i]
      BY <1>0, <2>3 DEF TickType, BeginTickOnce
    <3> QED
      BY <1>0, <1>1, <3>1 DEF FinalAt
  <2> QED
    BY <1>4, <2>1, <2>2, <2>3 DEF Handle
<1>5. CASE OpenOnSchedule(i) \/ CloseFinal(i)
  BY <1>2, <1>5 DEF OpenOnSchedule, CloseFinal, Rest
<1>6. ASSUME NEW s \in Shards, ReadShard(i, s)
      PROVE  FinalAt(i)'
  <2>1. /\ pc[i] = "read" /\ s \in unread[i] /\ row' = row
        /\ agg'[i] = AddShard(agg[i], counter[s]) /\ unread'[i] = unread[i] \ {s}
        /\ pc'[i] \in {"read", "get"} /\ seen' = seen /\ at' = at /\ final' = final
    BY <1>0, <1>6 DEF ReadShard, TickType, storeVars
  <2>2. AddShard(Tally(Outside(counted, unread[i])), counter[s])
          = Tally(Outside(counted, unread[i] \ {s}))
    BY <2>1, ReadShardAdds
  <2>3. final[i] /\ seen[i].version = row.version =>
          backlog = {} /\ agg'[i] = Tally(Outside(counted', unread'[i]))
    BY <1>1, <2>1, <2>2 DEF FinalAt
  <2> QED
    BY <1>1, <2>1, <2>3 DEF FinalAt, Snapshotting
<1>7. CASE GetAndMerge(i)
  <2>1. /\ pc[i] = "get" /\ row' = row /\ unread[i] = {}
        /\ agg'[i] = MergeMax(agg[i], result) /\ pc'[i] = "upsert"
        /\ seen' = seen /\ at' = at /\ final' = final /\ unread' = unread
    BY <1>0, <1>7 DEF GetAndMerge, TickType, storeVars, ReadAt
  <2>2. final[i] /\ seen[i].version = row.version => backlog = {} /\ agg[i] = Tally(counted)
    BY <1>0, <2>1 DEF FinalAt
  <2>3. agg[i] = Tally(counted) => MergeMax(agg[i], result) = Tally(counted)
    BY <1>0, MergeIsLub, AggregateOrder
  <2> QED
    BY <1>0, <1>1, <2>1, <2>2, <2>3 DEF FinalAt, Snapshotting
<1>8. CASE Upsert(i)
  <2>1. pc[i] = "upsert" /\ row' = row /\ result' = MergeMax(result, agg[i]) /\ unread[i] = {}
    BY <1>0, <1>8 DEF Upsert, storeVars, Greatest, ReadAt
  <2>2. CASE Rest(i)
    BY <1>2, <2>2 DEF Rest
  <2>3. CASE /\ AfterUpsert(i) # "idle"
             /\ pc' = [pc EXCEPT ![i] = AfterUpsert(i)]
             /\ UNCHANGED <<seen, at, unread, agg, final>>
    <3>1. pc'[i] = AfterUpsert(i) /\ seen' = seen /\ at' = at /\ final' = final
      BY <1>0, <2>3 DEF TickType
    <3>2. CASE final[i]
      <4>1. pc'[i] = "close"
        BY <3>1, <3>2 DEF AfterUpsert
      <4>2. seen[i].version = row.version => backlog = {} /\ agg[i] = Tally(counted)
        BY <1>0, <2>1, <3>2 DEF FinalAt
      <4>3. agg[i] = Tally(counted) => result' = Tally(counted)
        BY <1>0, <2>1, MergeIsLub, AggregateOrder
      <4> QED
        BY <1>1, <2>1, <3>1, <3>2, <4>1, <4>2, <4>3 DEF FinalAt, Snapshotting
    <3>3. CASE ~final[i]
      <4>1. pc'[i] = "lag" /\ at[i] >= seen[i].closesAt + Grace
        BY <1>0, <2>3, <3>1, <3>3 DEF AfterUpsert
      <4> QED
        BY <1>1, <3>1, <3>3, <4>1 DEF FinalAt
    <3> QED
      BY <3>2, <3>3
  <2> QED
    BY <1>8, <2>2, <2>3 DEF Upsert
<1>9. CASE ReadLag(i)
  <2>1. CASE Drained /\ BeginTickOnce(i, TRUE) /\ UNCHANGED <<seen, at>>
    <3>1. /\ pc[i] = "lag" /\ row' = row /\ backlog = {}
          /\ pc'[i] = "read" /\ unread'[i] = Shards /\ agg'[i] = NoVotes
          /\ seen' = seen /\ at' = at
      BY <1>0, <1>9, <2>1 DEF ReadLag, TickType, BeginTickOnce, storeVars, Drained
    <3>2. Outside(counted, Shards) = {}
      BY <1>0, SnapshotterAssumption DEF Outside
    <3> QED
      BY <1>1, <3>1, <3>2, NoVotesIsEmpty DEF FinalAt, Snapshotting
  <2>2. CASE Rest(i)
    BY <1>2, <2>2 DEF Rest
  <2> QED
    BY <1>9, <2>1, <2>2 DEF ReadLag
<1>10. CASE Fail(i)
  BY <1>2, <1>10 DEF Fail
<1> QED
  BY <1>3, <1>4, <1>5, <1>6, <1>7, <1>8, <1>9, <1>10 DEF SnapshotStep

LEMMA NextFinalInv ==
  ASSUME LagComplete, SnapshotInv, [Next]_vars, FinalInv
  PROVE  FinalInv'
<1>1. CASE \E i \in Snapshotters : SnapshotStep(i) \/ Fail(i)
  <2>1. PICK i \in Snapshotters : SnapshotStep(i) \/ Fail(i)
    BY <1>1
  <2>2. FinalAt(i)'
    BY <2>1, InstanceFinal DEF FinalInv
  <2>3. \A j \in Snapshotters \ {i} : FinalAt(j)'
    BY <2>1, InstanceKeeps, UntouchedFinal DEF FinalInv
  <2> QED
    BY <2>2, <2>3 DEF FinalInv
<1>2. CASE UNCHANGED tickVars
  BY <1>2, UntouchedFinal DEF tickVars, Untouched, FinalInv
<1>3. UNCHANGED tickVars \/ \E i \in Snapshotters : SnapshotStep(i) \/ Fail(i)
  BY DEF Next, Land, Count, Commit, OtherLands, OtherCommits, ResultsRow, ResultsGet, vars
<1> QED
  BY <1>1, <1>2, <1>3

(* The step that closes the poll finds everything counted and stored.        *)
LEMMA NextFinalIsExact ==
  ASSUME SnapshotInv, [Next]_vars, FinalInv, FinalIsExact
  PROVE  FinalIsExact'
<1>0. /\ backlog \cup counted \in SUBSET Voters /\ backlog' \cup counted' \in SUBSET Voters
      /\ row \in Row
  BY VotesStep DEF SnapshotInv, TypeOK
<1>1. CASE row.status = "closed"
  <2>1. result = Tally(backlog \cup counted) /\ backlog' \cup counted' = backlog \cup counted
    BY <1>1, VotesSettled DEF FinalIsExact
  <2>2. result' = Tally(backlog \cup counted)
    BY <1>0, <2>1, ResultSettled
  <2> QED
    BY <2>1, <2>2 DEF FinalIsExact
<1>2. ASSUME row.status # "closed", row'.status = "closed"
      PROVE  result' = Tally(backlog' \cup counted')
  <2>1. Closes
    BY <1>2, NextRowStep DEF RowStep, Opens, Moves, NextRow
  <2>2. row.version \in Nat /\ row'.version # row.version /\ row' # row
    BY <1>0, <2>1 DEF Closes, NextRow, Row
  <2>3. PICK i \in Snapshotters : CloseFinal(i)
    <3>1. ~AdminStep
      BY <1>2, <2>2, AdminRowStep DEF Opens, Moves, NextRow, SnapshotInv
    <3>2. \A i \in Snapshotters : ~OpenOnSchedule(i)
      <4>1. ASSUME NEW i \in Snapshotters, OpenOnSchedule(i) PROVE FALSE
        <5>1. row' = row \/ row' = NextRow(row, "open", row.closesAt)
          BY <1>0, <4>1, RowUpdates DEF OpenOnSchedule, Transition
        <5> QED
          BY <1>2, <5>1 DEF NextRow
      <4> QED
        BY <4>1
    <3> QED
      BY <2>2, <3>1, <3>2
         DEF Next, SnapshotStep, Tick, Land, Count, Commit, OtherLands, OtherCommits, ListActive,
             Handle, ReadShard, GetAndMerge, Upsert, ReadLag, Fail, ResultsRow, ResultsGet,
             vars, storeVars
  <2>4. pc[i] = "close" /\ seen[i].version = row.version /\ result' = result
        /\ UNCHANGED <<backlog, counted>>
    BY <2>2, <2>3 DEF CloseFinal, Transition, voteVars
  <2>5. backlog = {} /\ result = Tally(counted)
    BY <2>4 DEF FinalInv, FinalAt
  <2>6. backlog' \cup counted' = counted
    BY <2>4, <2>5
  <2> QED
    BY <2>4, <2>5, <2>6
<1> QED
  BY <1>1, <1>2 DEF FinalIsExact

LEMMA NextReaderInv ==
  ASSUME SnapshotInv, [Next]_vars, FinalIsExact, ReaderInv
  PROVE  ReaderInv'
<1>0. row.status \in {"scheduled", "open", "closed"}
  BY DEF SnapshotInv, AdminInv
<1>1. row.status = "closed" => row'.status = "closed"
  BY NextRowStep DEF RowStep, Opens, Closes, Moves
<1>2. row.status = "closed" => backlog' \cup counted' = backlog \cup counted
  BY VotesSettled
<1>3. CASE UNCHANGED readVars
  BY <1>1, <1>2, <1>3 DEF ReaderInv, FinalAnswerIsExact, readVars
<1>4. CASE ResultsRow
  BY <1>0, <1>1, <1>2, <1>4 DEF ReaderInv, FinalAnswerIsExact, ResultsRow
<1>5. CASE ResultsGet
  <2>1. reader' = "none" /\ shown' \subseteq shown \cup {result}
        /\ (shown' # shown => Final(reader))
    BY <1>5 DEF ResultsGet
  <2>2. Final(reader) => row.status = "closed" /\ result = Tally(backlog \cup counted)
    BY DEF Final, ReaderInv, FinalIsExact
  <2> QED
    BY <1>1, <1>2, <2>1, <2>2 DEF ReaderInv, FinalAnswerIsExact
<1> QED
  BY <1>3, <1>4, <1>5 DEF Next, vars

LEMMA InitFinal == Init => FinalInv /\ ClosedInv
<1> SUFFICES ASSUME Init PROVE FinalInv /\ ClosedInv
  OBVIOUS
<1>1. FinalInv
  BY DEF Init, StoreInit, FinalInv, FinalAt
<1>2. ClosedInv
  BY DEF Init, StoreInit, ClosedInv, FinalIsExact, ReaderInv, FinalAnswerIsExact
<1> QED
  BY <1>1, <1>2

LEMMA FinalInvariant ==
  ASSUME LagComplete
  PROVE  Spec => [](FinalInv /\ ClosedInv)
<1>1. SnapshotInv /\ FinalInv /\ ClosedInv /\ [Next]_vars => FinalInv' /\ ClosedInv'
  BY NextFinalInv, NextFinalIsExact, NextReaderInv DEF ClosedInv
<1> QED
  BY <1>1, InitFinal, SnapshotInvariant, PTL DEF Spec

(* A poll that is closed shows every vote that landed and nothing else, for  *)
(* any number of snapshotters, provided the lag reader sees every partition: *)
(* Finalize reads after the drain, and only its own version closes.          *)
THEOREM FinalIsExactHolds ==
  ASSUME LagComplete
  PROVE  Spec => []FinalIsExact
<1>1. ClosedInv => FinalIsExact
  BY DEF ClosedInv
<1> QED
  BY <1>1, FinalInvariant, PTL

(* ... and so does every answer that Results marks as final.                 *)
THEOREM FinalAnswerHolds ==
  ASSUME LagComplete
  PROVE  Spec => []FinalAnswerIsExact
<1>1. ClosedInv => FinalAnswerIsExact
  BY DEF ClosedInv, ReaderInv
<1> QED
  BY <1>1, FinalInvariant, PTL

=============================================================================
