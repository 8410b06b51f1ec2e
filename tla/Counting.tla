------------------------------ MODULE Counting ------------------------------
(* The drain: votes wait on the Kafka topic, a group of consumers takes them *)
(* in batches (internal/worker/kafka), looks their poll up in a cached       *)
(* configuration (internal/service/pollcfg), applies them to Redis with      *)
(* retries (internal/service/counting, internal/adapter/redis) and commits   *)
(* the offsets of the whole batch.                                           *)
EXTENDS Domain

CONSTANTS
  Consumers, Partitions, NoOwner,   \* the consumer group
  Polls, Voters, Options, Shards,
  BadVoter,                         \* a voter id ParseVoterID refuses
  Malformed,                        \* a record json.Unmarshal refuses
  Messages,                         \* votes: [poll, voter, choices, at]
  PartitionOf,                      \* the key hash of the producer
  ShardOf,                          \* ShardOf[q, v]: redis.shardFor
  OpensAt, ClosesAt,                \* the window a poll is created with
  CloseLag,                         \* how long after its check of the window an
                                    \* early close can still be written
  Workers,                          \* worker slots of one consumer
  MaxLog                            \* bound: records per partition

(* What the environment is assumed to do.  Each holds in the runs that show  *)
(* no vote is lost, and each is dropped in a run that shows what it buys.    *)
CONSTANTS
  RefreshInBudget,    \* a cache refresh succeeds within the lookup budget
  CommitsSucceed,     \* an offset commit fails only when it is cancelled
  FetchErrorsAlone,   \* a fetch that carries an error carries no records
  TransientReplies    \* every Redis error is one classify calls transient

ASSUME ConstantsAssumption ==
  /\ NoOwner \notin Consumers
  /\ BadVoter \notin Voters
  /\ Malformed \notin Messages
  /\ Messages \subseteq [poll : Polls, voter : Voters \cup {BadVoter},
                         choices : (SUBSET Options) \ {{}}, at : Nat]
  /\ PartitionOf \in [Voters \cup {BadVoter} -> Partitions]
  /\ ShardOf \in [Polls \X Voters -> Shards]
  /\ OpensAt \in [Polls -> Nat] /\ ClosesAt \in [Polls -> Nat \ {0}]
  /\ CloseLag \in Nat /\ Workers \in Nat \ {0} /\ MaxLog \in Nat
  /\ {RefreshInBudget, CommitsSucceed, FetchErrorsAlone, TransientReplies} \subseteq BOOLEAN

ASSUME FiniteVoters == IsFiniteSet(Voters)

VARIABLES
  row,         \* Postgres: row[q] = [status, closesAt]
  log,         \* Kafka: log[p], the records of partition p
  committed,   \* Kafka: the group's committed offset of p
  owner,       \* Kafka: the group member that p is assigned to
  head,        \* the owner's kgo client: the end of what it has polled of p
  pc,          \* where Run is: "poll", "handle", "commit" or "stopped"
  ctxDone,     \* whether the consumer's context is cancelled
  queued,      \* records of the batch no worker has taken
  looking,     \* records in awaitConfig
  applying,    \* records in applyWithRetry
  cache,       \* cache[c][q]: the Window of q in c's snapshot, or NoConfig
  dedup,       \* Redis: the dedup keys that are set
  counter,     \* Redis: counter[q][s] = [votes, ballots]
  ballot       \* history: the choices that were counted for <<q, v>>, or {}

kafkaVars == <<log, committed, owner, head>>
taskVars  == <<queued, looking, applying>>
redisVars == <<dedup, counter, ballot>>
vars == <<row, kafkaVars, pc, ctxDone, taskVars, cache, redisVars>>

NoConfig == [opensAt |-> 0, closesAt |-> 0]
Window   == [opensAt : Nat, closesAt : Nat]
Records  == Partitions \X (1 .. MaxLog)

(* The record at r = <<partition, offset>>.                                  *)
Msg(r) == log[r[1]][r[2]]

RowWindow(q) == [opensAt |-> OpensAt[q], closesAt |-> row[q].closesAt]
Announced(q) == [opensAt |-> OpensAt[q], closesAt |-> ClosesAt[q]]

(* The last moment at which q can end.                                       *)
LastClose == [q \in Polls |-> ClosesAt[q] + CloseLag]

(* refresh: ListActive and the snapshot that replaces the previous one.      *)
Snapshot ==
  [q \in Polls |-> IF row[q].status = "active" THEN RowWindow(q) ELSE NoConfig]

(* kafkaLag.Lag with no partition in error.                                  *)
Drained == \A p \in Partitions : committed[p] = Len(log[p])

TypeOK ==
  /\ row \in [Polls -> [status : {"absent", "active", "closed"}, closesAt : Nat \ {0}]]
  /\ log \in [Partitions -> Seq(Messages \cup {Malformed})]
  /\ committed \in [Partitions -> Nat]
  /\ head \in [Partitions -> Nat]
  /\ owner \in [Partitions -> Consumers \cup {NoOwner}]
  /\ pc \in [Consumers -> {"poll", "handle", "commit", "stopped"}]
  /\ ctxDone \in [Consumers -> BOOLEAN]
  /\ queued \in [Consumers -> SUBSET Records]
  /\ looking \in [Consumers -> SUBSET Records]
  /\ applying \in [Consumers -> SUBSET Records]
  /\ cache \in [Consumers -> [Polls -> Window]]
  /\ dedup \subseteq Polls \X Voters
  /\ counter \in [Polls -> [Shards -> [votes : [Options -> Nat], ballots : Nat]]]
  /\ ballot \in [Polls \X Voters -> SUBSET Options]

Init ==
  /\ row = [q \in Polls |-> [status |-> "absent", closesAt |-> ClosesAt[q]]]
  /\ log = [p \in Partitions |-> <<>>]
  /\ committed = [p \in Partitions |-> 0]
  /\ head = [p \in Partitions |-> 0]
  /\ owner = [p \in Partitions |-> NoOwner]
  /\ pc = [c \in Consumers |-> "stopped"]
  /\ ctxDone = [c \in Consumers |-> FALSE]
  /\ queued = [c \in Consumers |-> {}]
  /\ looking = [c \in Consumers |-> {}]
  /\ applying = [c \in Consumers |-> {}]
  /\ cache = [c \in Consumers |-> [q \in Polls |-> NoConfig]]
  /\ dedup = {}
  /\ counter = [q \in Polls |-> [s \in Shards |->
                  [votes |-> [o \in Options |-> 0], ballots |-> 0]]]
  /\ ballot = [k \in Polls \X Voters |-> {}]

-----------------------------------------------------------------------------
(* The environment: what the other processes do to the state the consumers   *)
(* read.  Their own steps are in PollStore, Snapshotter and Ingest.          *)

(* An admin creates poll q; the cached copies of the consumers lag behind.   *)
CreatePoll(q) ==
  /\ row[q].status = "absent"
  /\ row' = [row EXCEPT ![q] = [status |-> "active", closesAt |-> @.closesAt]]
  /\ UNCHANGED <<kafkaVars, pc, ctxDone, taskVars, cache, redisVars>>

(* An admin closes q: the end of the window moves, not the status.  Close    *)
(* checked the window before, so the UPDATE can even move the end to later;  *)
(* a second Close finds the window over.                                     *)
CloseNow(q) ==
  /\ row[q].status = "active"
  /\ row[q].closesAt = ClosesAt[q]
  /\ \E t \in 1 .. LastClose[q] :
       row' = [row EXCEPT ![q] = [status |-> "active", closesAt |-> t]]
  /\ UNCHANGED <<kafkaVars, pc, ctxDone, taskVars, cache, redisVars>>

(* The snapshotter finalizes q once the lag is zero; q leaves ListActive.    *)
FinalizePoll(q) ==
  /\ row[q].status = "active"
  /\ Drained
  /\ row' = [row EXCEPT ![q] = [status |-> "closed", closesAt |-> @.closesAt]]
  /\ UNCHANGED <<kafkaVars, pc, ctxDone, taskVars, cache, redisVars>>

(* The API puts an accepted vote on the partition of its voter.              *)
Produce(m) ==
  LET p == PartitionOf[m.voter] IN
  /\ row[m.poll].status = "active"
  /\ Len(log[p]) < MaxLog
  /\ log' = [log EXCEPT ![p] = Append(@, m)]
  /\ UNCHANGED <<row, committed, owner, head, pc, ctxDone, taskVars, cache, redisVars>>

ProduceMalformed(p) ==
  /\ Len(log[p]) < MaxLog
  /\ log' = [log EXCEPT ![p] = Append(@, Malformed)]
  /\ UNCHANGED <<row, committed, owner, head, pc, ctxDone, taskVars, cache, redisVars>>

-----------------------------------------------------------------------------
(* The group coordinator.  A partition that changes hands is consumed again  *)
(* from its committed offset; what the previous owner still has in its batch *)
(* runs on, and its commit no longer covers the partition.                   *)
Assign(p, c) ==
  /\ pc[c] # "stopped"
  /\ owner' = [owner EXCEPT ![p] = c]
  /\ head' = [head EXCEPT ![p] = committed[p]]
  /\ UNCHANGED <<row, log, committed, pc, ctxDone, taskVars, cache, redisVars>>

Reassign(p, c)  == owner[p] = NoOwner /\ Assign(p, c)
Rebalance(p, c) == owner[p] \notin {NoOwner, c} /\ Assign(p, c)

(* The process ends: its memory is gone and the group takes its partitions   *)
(* back.  A process that starts again is a new member.                       *)
Release(c) ==
  /\ owner' = [p \in Partitions |-> IF owner[p] = c THEN NoOwner ELSE owner[p]]
  /\ head' = [p \in Partitions |-> IF owner[p] = c THEN committed[p] ELSE head[p]]
  /\ pc' = [pc EXCEPT ![c] = "stopped"]
  /\ ctxDone' = [ctxDone EXCEPT ![c] = FALSE]
  /\ cache' = [cache EXCEPT ![c] = [q \in Polls |-> NoConfig]]
  /\ UNCHANGED <<row, log, committed, redisVars>>

-----------------------------------------------------------------------------
(* Consumer.Run.                                                             *)

(* The heads PollFetches can leave behind: it returns at least one record.   *)
Polled(c) ==
  { h \in [Partitions -> 0 .. MaxLog] :
      /\ h # head
      /\ \A p \in Partitions :
           IF owner[p] = c THEN head[p] <= h[p] /\ h[p] <= Len(log[p])
                           ELSE h[p] = head[p] }

Poll(c) ==
  /\ pc[c] = "poll"
  /\ ~ctxDone[c]
  /\ \E h \in Polled(c) :
       /\ head' = h
       /\ queued' = [queued EXCEPT ![c] =
                       { r \in Records : head[r[1]] < r[2] /\ r[2] <= h[r[1]] }]
  /\ pc' = [pc EXCEPT ![c] = "handle"]
  /\ UNCHANGED <<row, log, committed, owner, ctxDone, looking, applying, cache, redisVars>>

(* fetches.Errors() is not empty: Run backs off and polls again.  Records    *)
(* that came with the error are never handled, yet the client has moved on.  *)
PollFailed(c) ==
  /\ pc[c] = "poll"
  /\ ~ctxDone[c]
  /\ head' \in IF FetchErrorsAlone THEN {head} ELSE {head} \cup Polled(c)
  /\ UNCHANGED <<row, log, committed, owner, pc, ctxDone, taskVars, cache, redisVars>>

(* Mutant: handleBatch does not wait for the tasks it has started.           *)
BatchDoneNoWait(c) ==
  /\ pc[c] = "handle"
  /\ queued[c] = {}
  /\ pc' = [pc EXCEPT ![c] = "commit"]
  /\ UNCHANGED <<row, kafkaVars, ctxDone, taskVars, cache, redisVars>>

BatchDone(c) ==
  /\ pc[c] = "handle"
  /\ queued[c] \cup looking[c] \cup applying[c] = {}
  /\ pc' = [pc EXCEPT ![c] = "commit"]
  /\ UNCHANGED <<row, kafkaVars, ctxDone, taskVars, cache, redisVars>>

(* Mutant: the offsets are committed with a context that outlives shutdown.  *)
CommitDetached(c) ==
  /\ pc[c] = "commit"
  /\ committed' = [p \in Partitions |-> IF owner[p] = c THEN head[p] ELSE committed[p]]
  /\ pc' = [pc EXCEPT ![c] = "poll"]
  /\ UNCHANGED <<row, log, owner, head, ctxDone, taskVars, cache, redisVars>>

(* CommitUncommittedOffsets(ctx): with a cancelled context nothing is sent.  *)
Commit(c) ==
  /\ pc[c] = "commit"
  /\ ~ctxDone[c]
  /\ committed' = [p \in Partitions |-> IF owner[p] = c THEN head[p] ELSE committed[p]]
  /\ pc' = [pc EXCEPT ![c] = "poll"]
  /\ UNCHANGED <<row, log, owner, head, ctxDone, taskVars, cache, redisVars>>

(* A commit that fails is only logged; the next one covers its records, but  *)
(* that is sent only after another record has been polled.                   *)
CommitFails(c) ==
  /\ pc[c] = "commit"
  /\ ctxDone[c] \/ ~CommitsSucceed
  /\ pc' = [pc EXCEPT ![c] = "poll"]
  /\ UNCHANGED <<row, kafkaVars, ctxDone, taskVars, cache, redisVars>>

Exit(c) ==
  /\ pc[c] = "poll"
  /\ ctxDone[c]
  /\ Release(c)
  /\ UNCHANGED taskVars

-----------------------------------------------------------------------------
(* handleBatch and handle: one task per record, Workers at a time, taken in  *)
(* the order of their partition.                                             *)

(* Task r of c leaves the set it was in; nobody learns how it ended.         *)
Leave(c, r) ==
  /\ queued' = [queued EXCEPT ![c] = @ \ {r}]
  /\ looking' = [looking EXCEPT ![c] = @ \ {r}]
  /\ applying' = [applying EXCEPT ![c] = @ \ {r}]

(* Mutant: a malformed record keeps its place in the batch to be retried.    *)
StartTaskRetryMalformed(c, r) ==
  /\ pc[c] = "handle"
  /\ r \in queued[c]
  /\ \A e \in queued[c] : e[1] = r[1] => e[2] >= r[2]
  /\ Cardinality(looking[c] \cup applying[c]) < Workers
  /\ Msg(r) # Malformed
  /\ queued' = [queued EXCEPT ![c] = @ \ {r}]
  /\ looking' = [looking EXCEPT ![c] = @ \cup {r}]
  /\ UNCHANGED <<row, kafkaVars, pc, ctxDone, applying, cache, redisVars>>

StartTask(c, r) ==
  /\ pc[c] = "handle"
  /\ r \in queued[c]
  /\ \A e \in queued[c] : e[1] = r[1] => e[2] >= r[2]
  /\ Cardinality(looking[c] \cup applying[c]) < Workers
  /\ IF Msg(r) = Malformed
       THEN Leave(c, r)
       ELSE /\ queued' = [queued EXCEPT ![c] = @ \ {r}]
            /\ looking' = [looking EXCEPT ![c] = @ \cup {r}]
            /\ UNCHANGED applying
  /\ UNCHANGED <<row, kafkaVars, pc, ctxDone, cache, redisVars>>

(* ctx.Done() wins the wait for a slot: the record is skipped.               *)
SkipTask(c, r) ==
  /\ r \in queued[c]
  /\ ctxDone[c]
  /\ Leave(c, r)
  /\ UNCHANGED <<row, kafkaVars, pc, ctxDone, cache, redisVars>>

(* Mutant: the window is left to the API to check.                           *)
LookupHitAnyTime(c, r) ==
  /\ r \in looking[c]
  /\ cache[c][Msg(r).poll] # NoConfig
  /\ IF Msg(r).voter # BadVoter
       THEN /\ looking' = [looking EXCEPT ![c] = @ \ {r}]
            /\ applying' = [applying EXCEPT ![c] = @ \cup {r}]
            /\ UNCHANGED queued
       ELSE Leave(c, r)
  /\ UNCHANGED <<row, kafkaVars, pc, ctxDone, cache, redisVars>>

(* awaitConfig finds the poll; Count checks the window and the voter id.     *)
LookupHit(c, r) ==
  LET m == Msg(r)
      w == cache[c][m.poll] IN
  /\ r \in looking[c]
  /\ w # NoConfig
  /\ IF Contains(w, m.at) /\ m.voter # BadVoter
       THEN /\ looking' = [looking EXCEPT ![c] = @ \ {r}]
            /\ applying' = [applying EXCEPT ![c] = @ \cup {r}]
            /\ UNCHANGED queued
       ELSE Leave(c, r)
  /\ UNCHANGED <<row, kafkaVars, pc, ctxDone, cache, redisVars>>

(* awaitConfig gives up: the context is done, or the budget is used up.      *)
LookupTimeout(c, r) ==
  LET q == Msg(r).poll IN
  /\ r \in looking[c]
  /\ cache[c][q] = NoConfig
  /\ \/ ctxDone[c]
     \/ row[q].status # "active"
     \/ ~RefreshInBudget
  /\ Leave(c, r)
  /\ UNCHANGED <<row, kafkaVars, pc, ctxDone, cache, redisVars>>

-----------------------------------------------------------------------------
(* Mutant: the counters move whether or not the dedup key was new.           *)
VoteScriptNoDedup(m) ==
  LET k == <<m.poll, m.voter>> IN
  /\ dedup' = dedup \cup {k}
  /\ counter' = [counter EXCEPT ![m.poll][ShardOf[k]] =
                   [votes |-> [o \in Options |->
                      IF o \in m.choices THEN @.votes[o] + 1 ELSE @.votes[o]],
                    ballots |-> @.ballots + 1]]
  /\ ballot' = [ballot EXCEPT ![k] = m.choices]

(* Mutant: a repeated vote replaces the voter's earlier ballot.              *)
VoteScriptRevote(m) ==
  LET k == <<m.poll, m.voter>>
      s == ShardOf[k]
      In(o, S) == IF o \in S THEN 1 ELSE 0 IN
  /\ dedup' = dedup \cup {k}
  /\ counter' = [counter EXCEPT ![m.poll][s] =
                   [votes |-> [o \in Options |->
                      @.votes[o] + In(o, m.choices) - In(o, ballot[k])],
                    ballots |-> @.ballots + (IF k \in dedup THEN 0 ELSE 1)]]
  /\ ballot' = [ballot EXCEPT ![k] = m.choices]

(* Mutant: a repeated vote takes the voter's ballot back.                    *)
VoteScriptTakesBack(m) ==
  LET k == <<m.poll, m.voter>>
      s == ShardOf[k] IN
  IF k \in dedup
    THEN /\ counter' = [counter EXCEPT ![m.poll][s].ballots = @ - 1]
         /\ UNCHANGED <<dedup, ballot>>
    ELSE /\ dedup' = dedup \cup {k}
         /\ counter' = [counter EXCEPT ![m.poll][s].ballots = @ + 1]
         /\ ballot' = [ballot EXCEPT ![k] = m.choices]

(* vote.lua, run by Redis in one piece.                                      *)
VoteScript(m) ==
  LET k == <<m.poll, m.voter>>
      s == ShardOf[k] IN
  IF k \in dedup
    THEN UNCHANGED redisVars
    ELSE /\ dedup' = dedup \cup {k}
         /\ counter' = [counter EXCEPT ![m.poll][s] =
                          [votes |-> [o \in Options |->
                             IF o \in m.choices THEN @.votes[o] + 1 ELSE @.votes[o]],
                           ballots |-> @.ballots + 1]]
         /\ ballot' = [ballot EXCEPT ![k] = m.choices]

(* The script ran and its answer came back: counted or already counted.      *)
Apply(c, r) ==
  /\ r \in applying[c]
  /\ VoteScript(Msg(r))
  /\ Leave(c, r)
  /\ UNCHANGED <<row, kafkaVars, pc, ctxDone, cache>>

(* The script ran and its answer was lost: a transient error, so the task    *)
(* will apply the same vote again.                                           *)
ApplyLost(c, r) ==
  /\ r \in applying[c]
  /\ VoteScript(Msg(r))
  /\ UNCHANGED <<row, kafkaVars, pc, ctxDone, taskVars, cache>>

(* Apply fails for good: the context is cancelled, or Redis answered with an *)
(* error that is not on the list of transient ones.                          *)
ApplyFails(c, r) ==
  /\ r \in applying[c]
  /\ ctxDone[c] \/ ~TransientReplies
  /\ Leave(c, r)
  /\ UNCHANGED <<row, kafkaVars, pc, ctxDone, cache, redisVars>>

-----------------------------------------------------------------------------
(* The process: start with a warm cache, refresh it, stop, crash.            *)
Start(c) ==
  /\ pc[c] = "stopped"
  /\ pc' = [pc EXCEPT ![c] = "poll"]
  /\ cache' = [cache EXCEPT ![c] = Snapshot]
  /\ UNCHANGED <<row, kafkaVars, ctxDone, taskVars, redisVars>>

Refresh(c) ==
  /\ pc[c] # "stopped"
  /\ ~ctxDone[c]
  /\ cache' = [cache EXCEPT ![c] = Snapshot]
  /\ UNCHANGED <<row, kafkaVars, pc, ctxDone, taskVars, redisVars>>

(* SIGTERM cancels the context every worker shares.                          *)
Shutdown(c) ==
  /\ pc[c] # "stopped"
  /\ ~ctxDone[c]
  /\ ctxDone' = [ctxDone EXCEPT ![c] = TRUE]
  /\ UNCHANGED <<row, kafkaVars, pc, taskVars, cache, redisVars>>

Crash(c) ==
  /\ pc[c] # "stopped"
  /\ queued' = [queued EXCEPT ![c] = {}]
  /\ looking' = [looking EXCEPT ![c] = {}]
  /\ applying' = [applying EXCEPT ![c] = {}]
  /\ Release(c)

-----------------------------------------------------------------------------
Environment ==
  \/ \E q \in Polls : CreatePoll(q) \/ CloseNow(q) \/ FinalizePoll(q)
  \/ \E m \in Messages : Produce(m)
  \/ \E p \in Partitions : ProduceMalformed(p)

(* The steps Go's scheduler and Kafka owe to a consumer that is left alone.  *)
TaskStep(c, r) ==
  \/ StartTask(c, r) \/ SkipTask(c, r)
  \/ LookupHit(c, r) \/ LookupTimeout(c, r)
  \/ Apply(c, r)

Progress(c) ==
  \/ Poll(c) \/ BatchDone(c) \/ Commit(c) \/ Exit(c)
  \/ ctxDone[c] /\ CommitFails(c)
  \/ \E r \in Records : TaskStep(c, r)

(* What goes wrong.                                                          *)
Fault(c) ==
  \/ PollFailed(c) \/ (~ctxDone[c] /\ CommitFails(c))
  \/ Shutdown(c) \/ Crash(c)
  \/ \E r \in Records : ApplyLost(c, r) \/ ApplyFails(c, r)
  \/ \E p \in Partitions : Rebalance(p, c)

Next ==
  \/ Environment
  \/ \E c \in Consumers :
       \/ Progress(c) \/ Fault(c) \/ Start(c) \/ Refresh(c)
       \/ \E p \in Partitions : Reassign(p, c)

Spec == Init /\ [][Next]_vars

(* Go schedules every goroutine, the refresh ticker fires every interval,    *)
(* docker restarts a process that ended, and the coordinator hands an        *)
(* orphaned partition to a live member.                                      *)
Fairness ==
  /\ \A c \in Consumers :
       WF_vars(Progress(c)) /\ WF_vars(Start(c)) /\ WF_vars(Refresh(c))
  /\ \A p \in Partitions : WF_vars(\E c \in Consumers : Reassign(p, c))

FairSpec == Spec /\ Fairness

-----------------------------------------------------------------------------
(* A record needs no more work: it cannot be counted, or its voter has been. *)
(* A vote is owed when both the announced and the stored window contain it.  *)
Settled(m) ==
  \/ m = Malformed
  \/ m.voter = BadVoter
  \/ ~Contains(Announced(m.poll), m.at)
  \/ ~Contains(RowWindow(m.poll), m.at)
  \/ <<m.poll, m.voter>> \in dedup

(* A vote that was cast inside the window is never skipped: every record     *)
(* below the committed offset is settled, whatever crashes, rebalances,      *)
(* failed commits, lost answers and shutdowns happened (Run's commit after   *)
(* handleBatch, which swallows every error of Count).                        *)
CommittedIsSettled ==
  \A p \in Partitions : \A i \in 1 .. committed[p] : Settled(log[p][i])

(* The voters of q in shard s whose counted ballot has a choice in O.        *)
CountedVoters(q, s, O) ==
  { v \in Voters : ShardOf[<<q, v>>] = s /\ ballot[<<q, v>>] \cap O # {} }

(* Retries, redelivery and zombies never inflate the tally: in every shard   *)
(* the ballot counter is the number of voters counted there, and the counter *)
(* of an option the number of those whose one ballot names it (vote.lua).    *)
TallyExact ==
  \A q \in Polls, s \in Shards :
    /\ counter[q][s].ballots = Cardinality(CountedVoters(q, s, Options))
    /\ \A o \in Options :
         counter[q][s].votes[o] = Cardinality(CountedVoters(q, s, {o}))

(* The first counted ballot of a voter stands: no later vote of the voter,   *)
(* retry or redelivery changes or removes it (SET NX in vote.lua).           *)
FirstBallotStands ==
  [][\A k \in Polls \X Voters : ballot[k] # {} => ballot'[k] = ballot[k]]_vars

CastVotes ==
  { m \in Messages : \E p \in Partitions : \E i \in 1 .. Len(log[p]) : log[p][i] = m }

Box == INSTANCE BallotBox WITH cast <- CastVotes, ClosesAt <- LastClose

(* Counting implements the ballot box: a counted ballot was on the topic and *)
(* inside the window of its poll, and it is counted once.                    *)
BallotBoxSpec == Box!Spec

-----------------------------------------------------------------------------
(* The parts of the inductive invariant.                                     *)

Tasks(c) == queued[c] \cup looking[c] \cup applying[c]

(* Offsets are ordered, and a worker only runs while its batch is handled.   *)
OffsetsOrdered ==
  \A p \in Partitions :
    /\ committed[p] <= head[p]
    /\ head[p] <= Len(log[p])
    /\ Len(log[p]) <= MaxLog

TasksInBatch ==
  \A c \in Consumers :
    /\ Tasks(c) # {} => pc[c] = "handle"
    /\ \A r \in Tasks(c) : r[2] <= Len(log[r[1]])
    /\ \A r \in looking[c] \cup applying[c] : Msg(r) \in Messages
    /\ \A r \in applying[c] : Msg(r).voter \in Voters

(* A cached window is the announced one or the one Postgres has now.         *)
CachedWindowKnown ==
  \A q \in Polls :
    /\ row[q].closesAt <= LastClose[q]
    /\ \A c \in Consumers : cache[c][q] \in {NoConfig, Announced(q), RowWindow(q)}

(* Only a vote inside the window is ever applied.                            *)
ApplyingInWindow ==
  \A c \in Consumers : \A r \in applying[c] :
    Contains([opensAt |-> OpensAt[Msg(r).poll], closesAt |-> LastClose[Msg(r).poll]],
             Msg(r).at)

DedupMatchesBallots == dedup = {k \in Polls \X Voters : ballot[k] # {}}

(* A poll has no votes before it exists, and none left to count after it is  *)
(* finalized.                                                                *)
RecordsOfPolls ==
  \A p \in Partitions : \A i \in 1 .. Len(log[p]) :
    LET m == log[p][i] IN
    m # Malformed =>
      /\ row[m.poll].status # "absent"
      /\ row[m.poll].status = "closed" => Settled(m)

(* What a commit would cover is settled or still in the hands of a worker of *)
(* the consumer that would send it, unless that consumer is shutting down.   *)
PolledIsCovered ==
  \A p \in Partitions : owner[p] # NoOwner =>
    /\ pc[owner[p]] # "stopped"
    /\ \/ ctxDone[owner[p]]
       \/ \A i \in 1 .. head[p] :
            Settled(log[p][i]) \/ <<p, i>> \in Tasks(owner[p])

-----------------------------------------------------------------------------
FaultsCease == <>[][\A c \in Consumers : ~Fault(c)]_vars

(* Once faults cease every record on the topic is settled: a malformed       *)
(* record, an unknown poll or a failed commit blocks nothing behind it       *)
(* (handle and applyWithRetry, whose retries have no limit).                 *)
EveryVoteSettled ==
  FaultsCease => \A r \in Records :
    (r[2] <= Len(log[r[1]])) ~> (r[2] <= Len(log[r[1]]) /\ Settled(Msg(r)))

(* Once faults cease the committed offsets reach the end of the topic: only  *)
(* then does drained() let the snapshotter finalize a poll.                  *)
DrainReachesZero == FaultsCease => <>[]Drained

=============================================================================
