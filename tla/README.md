# A TLA+ model of televote

Televote takes the votes of a television broadcast.  During the window it only accepts votes and
puts them on a Kafka topic; afterwards consumers drain the topic into counters in Redis, and
snapshotters copy the counters to Postgres and close the poll.  The hard part is not any single
function: it is that four kinds of process work on each other's stale data, that every step
between Kafka, Redis and Postgres can fail half way, and that the drain must neither lose a vote
nor count one twice.  This directory models that, checks it with TLC on small instances and proves
its safety with TLAPS for every instance.

## 1. The system

| component | state it keeps | operations | talks to |
|---|---|---|---|
| **API** (`service/voting`, `adapter/producer`, `transport/httpapi/public.go`) | none but its cache | `Accept`: look the poll up, validate, check the window, stamp, `Send` | cache, Kafka |
| **Admin API** (`service/polls`, `adapter/postgres/polls.go`) | the `polls` row: status, version, `closes_at` | `Create`, `Open`, `Close`, `Results` | Postgres |
| **Config cache** (`service/pollcfg`), one per process | the last snapshot of the active polls | `Warm`, `refresh`, `BySlug`, `ByID` | Postgres |
| **Consumer** (`worker/kafka`, `service/counting`) | the batch in its hands, the position of its Kafka client, a circuit breaker | `Run`, `handleBatch`, `handle`, `Count`, `awaitConfig`, `applyWithRetry` | Kafka, cache, Redis |
| **Tally** (`adapter/redis`, `vote.lua`) | dedup keys, sharded counters | `Apply` (one script), `Aggregate` (one read per shard) | Redis |
| **Advisor** (`service/capacity`) | none | `Advise`: which capacity the next minutes need | Postgres, Kafka lag |
| **Snapshotter** (`service/snapshot`, `worker/snapshot`), several | nothing between ticks | `Tick`, `handle`, `TickOnce`, `Finalize`, `drained` | Postgres, Redis, Kafka lag |
| **Results** (`adapter/postgres/results.go`) | `poll_results`, `poll_stats` | `Get`, `Upsert` with `GREATEST` | Postgres |
| **Lifecycle** (`platform/app`) | the context of the process | start, SIGTERM, wait, end | all |
| **Configuration** (`platform/config`) | durations, ratios, addresses | `LoadFrom`, `validate` | all |
| domain rules (`domain`) | none | state machine, window, `MergeMax`, choice rules, sharding, capacity | |

What is hard about it:

* *Concurrency.*  The workers of one batch, several consumers and a consumer that lost a partition
  but still works on its records apply votes of one voter at the same time.  Snapshotters read,
  merge and write the same counters.  An admin's `Open` or `Close` reads and writes the row in two
  statements.
* *Failure.*  A script ran but its answer is lost; a commit fails; a process dies between counting
  and committing, or between the last snapshot and closing the poll; a fetch or a lag request
  fails for one partition of several; Redis goes away and a breaker shared by all workers lets one
  of them through to find out whether it is back; a process is told to stop in the middle of its
  requests.
* *Order.*  Offsets are committed for a whole batch whatever became of its records; the grace
  period, the lag and the last snapshot have to follow each other.
* *Staleness and time.*  API and consumers decide with windows of different age; an accepted vote
  reaches the topic after the window has ended; a send that timed out can still land; keys in Redis
  expire while votes are still being counted.

What makes the components correct:

* Consumer and tally: no committed offset covers a vote that is owed; a voter has at most one
  ballot, the first one counted; the counters are exactly the ballots; nothing on the topic blocks
  what is behind it; no key expires before the drain has ended; no outage makes a worker give a vote
  up; the drain ends.
* Store and snapshotter: the row follows the state machine; the stored result never runs ahead of
  Redis and never goes down; what a closed poll shows is exact; every poll is closed.
* API: a vote inside the window is counted by whichever consumer gets it; no vote lands after its
  poll was finalized; a process that is stopped answers what it has begun.
* Advisor: a broadcast that is near or on air gets the capacity to carry it, and no vote waits
  without a consumer.

`PROJECT.json` lists every component, also those left out, and every hazard with the line where it
bites.

## 2. The modules

```
Domain ── BallotBox                    the abstract ballot box
   │          ▲ refined by
   ├────── Counting ─┬─ CountingProofs ── CommitProofs ── BallotBoxProofs
   │                 └─ MCCounting
   ├────── Config ───── Applying ─┬─ ApplyingProofs
   │                              └─ MCApplying
   ├────── PollStore ┬─ PollStoreProofs          what a version vouches for
   │                 ├─ Snapshotter ─┬─ SnapshotterProofs (with PollStoreProofs)
   │                 │               └─ MCSnapshotter
   │                 └─ Ingest ──────┬─ IngestProofs (with PollStoreProofs)
   │                                 └─ MCIngest
   └────── PollRules ┬─ PollRulesProofs
                     └─ MCPollRules
```

**Domain** has the pure rules of `internal/domain`: `transitions`, the half-open `Contains`,
`IsOpenAt`, `ShouldOpenAt`, and `MergeMax`, which takes the larger of two aggregates counter by
counter.

**BallotBox** says what counting promises without any of its machinery: votes are cast; a cast vote
inside its poll's window may be recorded for a voter who has no ballot; nothing else ever happens
to a ballot.

**Counting** is the drain.  A partition is a sequence `log[p]`, its group offset `committed[p]`,
its `owner`, and `head[p]`, how far the owner's client has polled.  Each consumer has the place
`pc` where `Run` is, its context `ctxDone`, and its batch as three sets of records: `queued` (no
worker slot yet), `looking` (in `awaitConfig`) and `applying` (in `applyWithRetry`).  `Poll`,
`BatchDone`, `Commit`/`CommitFails` and `Exit` are the loop of `Run`; `StartTask` and `SkipTask` the
two arms of the `select` in `handleBatch`; `LookupHit` and `LookupTimeout` the two ends of
`awaitConfig`; `Apply`, `ApplyLost` and `ApplyFails` the ends of one attempt to run `vote.lua`.
A retry is `ApplyLost` or nothing at all followed by another attempt.  A task leaves the batch in
the same way whatever happened to it (`Leave`), because `handle` returns no error: this is the
heart of the model.  `Release` is the end of a process, by `Exit` after a shutdown or by `Crash`.
The client library is modelled from how the code uses it: a partition that changes hands is
consumed again from its committed offset, the records of the former owner stay with it, and its
commit no longer covers them.  Polls are active or not and their window moves at most once (a
second `Close` finds the window over).  `CloseNow` picks any new end up to `CloseLag` past the
announced one, because `Close` checks the window and the `UPDATE` sets `now()` later.  `ballot` is a
history variable: what was counted for a voter.

**Config** has the durations and ratios of `config.go` and the rules `validate` has for them, with
`validateDedupInvariant`: the TTL less its jitter must cover the drain budget.

**Applying** opens up what Counting has as one step: the workers of one consumer run `vote.lua`
through the circuit breaker, in time, and with a configuration that passed `validate`.  `breaker` is
the library's state: closed, open or half-open, the requests and failures of the present generation
and whether its timer has run out.  `Execute` is a call let through, `Rejected` one that is refused,
`CallSucceeds`, `CallLost`, `CallFails`, `CallPermanent` and `CallRefused` the ways it ends: counted,
counted without an answer, a transient error, an error that `classify` takes for a permanent one (the
task ends uncounted, and the history variable `refused` remembers it) and a vote that `validateVote`
refuses.  `Retry` and `GiveUp` are the two arms of the `select` after a transient error.  A result
counts only in the generation its call began in.  A dedup key and a counter carry the time at which
Redis drops them; `TtlFor` is the jittered TTL, and every vote sets the expiry of its counter again.
After `Shutdown` and `Restart` all votes are delivered again.  `Horizon` is when the drain ends.

**PollStore** is one `polls` row, the clock and the admin: `OpenRead`/`OpenWrite` and
`CloseRead`/`CloseWrite` are `Service.Open` and `Service.Close` with anything in between;
`Transition` and `CloseNow` are the versioned `UPDATE`s, which check the version and nothing else.

**Snapshotter** extends it with instances that take the steps of `handle` one by one: list the row,
open it on schedule or take a snapshot (`ReadShard` for each shard, `GetAndMerge`, `Upsert`), after
the grace period ask for the lag, take the last snapshot and close (`Finalize`).  All of it is
decided on the row read at the start.  `Fail` can happen between any two steps.  `ResultsRow` and
`ResultsGet` are the two reads of `Service.Results`.  Votes land, are counted and committed as
`Counting` delivers them; of other polls on the same topic only the lag exists (`OtherLands`,
`OtherCommits`), and finalization has to wait for it (`Drained`).

**Ingest** extends PollStore with requests, API processes, caches and consumers in time.  `Receive`
is a request whose body is read within `ReadTimeout`; `Check` reads the clock and `Stamp` reads it
again at most `Pause` later; a send is over after `SendTimeout`, with its outcome unknown:
`BrokerAppends` may happen after the client was answered 503.  `Verdict` is the list of early returns
of `Accept` in their order.  A cache entry is at most `MaxAge` old, until `Sigterm` ends `Cache.Run`
and starts the deadline `ShutdownGrace`.  The process is then `draining`: `serve` first waits for the
pprof server, at most `DebugTime`, and all that while the vote listener is open and takes requests with
a cache nobody refreshes.  `CloseListener` is the beginning of `srv.Shutdown`; `Exit` comes when all
requests are answered or at the deadline, which both shutdowns share; `Crash` at any time; `Start`
warms the cache and then listens.  `Count` is a consumer's decision on a record, with its own cached
window; until `Commit` the record may be delivered again, to another consumer with another window.

**PollRules** has `validate`, `NewPoll`, `ShardCountFor`, `ChoiceRules.Validate` and `CapacityFor` as
operators over the polls that `Create` stores, and `Scans`, what `scanPoll` asks of a row.  Texts are
the classes `validate` tells apart; capacity is computed exactly, in votes and people, where the code
uses floating point.  The stored polls are opened, closed early and finalized, votes land and are
committed.  `KafkaLag` is what `kafkaLag.Lag` may return: the number of waiting votes or, unless
`LagComplete`, any part of it, because a partition or a group in error adds nothing.  `ReadLag` is what
the advisor makes of it (1 when it cannot be read), and `Advise(l)` the set of what it may answer with
the lag `l` (a set, because polls that open together come in the order of a random
id).  What other actors do to a row is one step here; PollStore and Snapshotter have its reads and
writes apart.  `ValidIsASet` says what lets Counting treat the choices of a vote as a set of options
of its poll.

The definitions named `Mutant: ...` in comments are plausible mistakes; no specification uses them.
Replacing the definition that follows each one makes TLC report the property `PROJECT.json` pairs
it with, so no property holds just by the shape of the model.

## 3. Assumptions about the environment

Each of the first five is a constant, so that a run can drop it.

| assumption | meaning | why it is assumed | without it |
|---|---|---|---|
| `RefreshInBudget` | a cache refresh succeeds within the lookup budget | the budget is three refresh intervals, 6 s by default; a refresh that uses up its own timeout of 5 s after an interval of 2 s already exceeds it | votes of a poll the consumer has not cached are dropped and committed |
| `FetchErrorsAlone` | a fetch with an error carries no records | the code needs it; the client does not promise it | run `fetch_error` |
| `TransientReplies` | every Redis error is on the list of transient ones | the code needs it; Applying does without it and excepts the votes that met such an error (`refused`) | an error that `transientReplies` does not list drops the vote, and its offset is committed |
| `CommitsSucceed` | a commit fails only when it is cancelled | only for the drain to end | run `commit_lost` |
| `LagComplete` (Snapshotter, PollRules) | no partition is in error when the lag is read | the code needs it | run `lag_error`; the advisor answers idle while votes wait |
| `Late <= Grace` (Snapshotter), `Grace > Late` (Ingest) | the grace period outlasts the age of a cached window, the time a stopping process keeps its listener open, the time to read a request, the pause in `Accept` and the produce timeout | 30 s by default, against 2 s between refreshes and up to 5 s for one of them, 13 s for the debug server (below), 5 s `READ_TIMEOUT` and 2 s `KAFKA_PRODUCE_TIMEOUT`: 27 s and the pause.  The configuration accepts any grace period that is not negative, and `snapshot.New` replaces zero by 30 s, so a small positive one is at risk | mutants `AfterUpsertNoGrace`, `FinalizeNoGrace` |
| refreshes succeed within `MaxAge` (Ingest) | Postgres, or the read replica the API uses, is reachable and current | while it is not, `Cache.Run` goes on with the previous snapshot and only reports its age | after an early close the API would take votes for as long as it does not see it, and the poll could be finalized before |
| `ShutdownGrace > DebugTime + ReadTimeout + Pause + SendTimeout` (Ingest) | the deadline of a stopping process outlasts the last request of its debug server and after it a request | 25 s by default, against 13 s (3 s to read the header, and pprof refuses a profile that would exceed `WRITE_TIMEOUT`, 10 s), 5 s and 2 s; the configuration does not compare them.  With `DEBUG_ADDR=off` there is no debug server, and `DebugTime` is 0 | requests end without an answer |
| the drain ends within `DRAIN_WINDOW` and the grace period of the close (Applying) | what `DrainBudget` assumes | `config.go` and `CapacityFor` are written for it | keys expire during the drain |
| a poll is open for at most `SafetyMargin` (Applying, `Window`) | 10 minutes; with the default TTL of 30 minutes the keys allow for 21.5 | nothing in the code says so | run `long_window` |

Snapshotter and PollRules let votes land until a bounded time after the end of the window, and
Counting lets none be produced for a poll that is finalized.  Ingest shows both from the timeouts
(`LandsInTime`, `NoVoteAfterFinal`).  Counting keeps every key for ever; Applying shows from the
configuration that the keys last long enough (`CountedOnce`, `CountersOutliveDrain`).  The advisor of
PollRules reads the rows as they are; the code reads them from a replica, which may be behind.

## 4. The runs

| run | instance | checks | shows |
|---|---|---|---|
| `counting` | 2 consumers, 1 partition of 2 records, 3 possible votes of 2 voters (one voter disagrees with itself), 2 workers, 2 shards; commits may fail | `CommittedIsSettled` `TallyExact` `FirstBallotStands` `BallotBoxSpec` | no crash, rebalance, shutdown, failed commit or lost answer loses a vote or counts one twice |
| `counting_live` | 1 consumer, 1 partition of 2 records; late votes, malformed records, bad voter ids, a window that moves both ways; fairness, commits succeed | `TypeOK` `CommittedIsSettled` `BallotBoxSpec` `EveryVoteSettled` `DrainReachesZero` | what must not be counted is not; once faults cease every record is settled, the lag reaches zero and stays there |
| `applying` | 2 workers, a vote of each of 2 voters and an invalid one, one shard, a breaker that trips at 2 requests; TTLs whose lower bound just meets the drain budget; fairness | `TypeOK` `CountedOnce` `CountersOutliveDrain` `BreakerDropsNothing` `EveryVoteApplied` | no outage, lost answer, restart or expiry counts a voter twice, only a permanent error drops a vote, and the breaker closes again |
| `snapshotter` | 2 instances, 2 voters in 2 shards, an admin, a clock of 4 | `TypeOK` `FinalIsExact` `FinalAnswerIsExact` `NeverDoubleCounts` `PercentWithinBounds` `ResultNeverShrinks` `StatusFollowsFSM` | results are exact at the end and when they are called final, monotone and never ahead of Redis before it; the version check keeps the row on the state machine |
| `snapshotter_live` | 1 instance, 2 votes of other polls, fairness | `EventuallyClosed` | once failures cease every poll is opened and closed, after the lag of the others too |
| `ingest` | 1 API with a debug server that stops, crashes and starts, 2 consumers, 1 request, an admin, fairness | `TypeOK` `InWindowIsCounted` `NoRequestLost` `NoVoteAfterFinal` `LandsInTime` `TopicIsDecided` | a vote in the window is counted; a shutdown loses no request; every vote on the topic is decided, the poll is finalized, and nothing lands afterwards |
| `poll_rules` | every combination of type, up to 4 options (limit 3) and choice bounds; shard counts and audiences around their limits; one wrong field at a time; a second poll, a lag of up to 2 that is complete or cannot be read | `EveryRowScans` `EveryPollHasABallot` `ValidIsASet` `CapacityDrains` `VotesHaveConsumers` `BroadcastIsCovered` | whatever `Create` lets in can be read, voted in and drained, and a ballot it takes is a set; a broadcast of its own has its capacity from prewarm to the end of the drain, and waiting votes have consumers |

Runs that show a disagreement (TLC finds a counterexample, the finding in `PROJECT.json` quotes
the text it contradicts):

| run | property | what happens |
|---|---|---|
| `fetch_error` | `CommittedIsSettled` | two partitions: `Run` drops the records that came with another partition's error; a later commit covers them |
| `commit_lost` | `DrainReachesZero` | the last commit of a broadcast fails and is never sent again: the lag stays above zero and the poll open |
| `lag_error` | `FinalIsExact` | a partition whose lag is unknown counts as drained |
| `accepted_dropped` | `AcceptedIsCounted` | a vote answered with 202 is stamped at or after the end of its window, by an early close that the API has not seen or between the two clock reads of `Accept`, and the consumer drops it |
| `long_window` | `CountedOnce` | in a poll that is open for longer than the margin, the dedup key of an early vote expires while votes are counted, and a repeat counts |

The models also show behaviour that no property forbids.  Two snapshots of different moments are
merged counter by counter, so an intermediate result can show more votes than ballots in a
single-choice poll (`PercentWithinBounds` bounds each option only).  An invalid vote counts as a
failure of Redis for the breaker, so an invalid vote that happens to be the probe opens it again.
The advice is that of one poll: a small poll that still drains hides a large one that is live, and of
several that are near the last one counts.

*Bounds.*  `MaxLog` is the number of records of a partition: two are needed for a commit that covers
a record it should not and for two votes of one voter to overtake each other; there is no third actor
a third record could meet.  Two consumers are needed for a rebalance and for a former owner working
next to the new one.  `MaxTime` is just large enough for the window, the grace period and a
finalization after it.  `MaxAge`, `DebugTime`, `ReadTimeout`, `Pause`, `SendTimeout` and `CloseLag`
(0 in run `counting`) are 1, the smallest value at which the delay exists; `Grace` and
`ShutdownGrace` are the smallest the assumptions allow, and one less of either violates
`NoVoteAfterFinal` or `NoRequestLost`.  In Ingest one request is enough, because requests do not wait
for each other; the two consumers may decide on it with windows of different age.  `OtherVotes` is 2,
so that the lag of the other polls returns after it was zero; it is 0 where exactness is checked,
because the votes of other polls only postpone the finalization.  In Applying the breaker trips at
`MinRequests` = 2 instead of 20: what matters is that one failure is not enough and that two workers
can be in a generation; time runs to `Horizon`, and the two voters have the shortest and the longest
jitter.  `MaxLag` = 2 and two slugs let one poll drain while the other is live or near.  `MaxLog`
also bounds the proofs' log, but there it is any natural number.  Symmetry over consumers and
instances is used only in runs without liveness. Deadlock is not checked: the bounded log and clock
make every instance stop, and so does the system after the last poll is closed.

*Fairness* (in `counting_live`, `snapshotter_live`, `ingest`, `applying` and `commit_lost`).  Weak
fairness of `Progress(c)`, of every worker and snapshotter step, `Count`, `Check`, `Stamp` and the
end of a request, and of Ingest's `Commit` (commits that fail are `commit_lost`'s subject): Go's
scheduler runs a goroutine that can run, and every call has a timeout.  Of `Refresh` and
`ListActive`: tickers.  Of `TimerRunsOut`: the breaker compares its expiry with the clock.  Of
`CloseListener` and `Exit`: both shutdowns have a deadline.  Of `RedisRecovers`: an outage ends.  Of
`Start` and `Restart`: the deployment restarts a process that ended (`restart: unless-stopped`); in
Ingest not even that is assumed of the API.  Of `Reassign`: the group coordinator gives an orphaned
partition to a live member.  Of the clock: time passes.  No fairness for what an admin or a voter may
do, none for faults; the properties assume that faults *cease* (`FaultsCease`, `Fault` in Applying),
not that they never happen.  `DrainReachesZero` needs that commits succeed, and `commit_lost` shows
why.

## 5. The proofs

Every safety property of the passing runs, invariant or action property, is also a theorem, for every
number of consumers, partitions, polls, voters, options, shards, workers, instances, processes and
requests, every bound of a log or a clock and every value of the delays that the assumptions admit.
The assumptions are those the modules state of their constants: `ConstantsAssumption` and
`FiniteVoters` (Counting), `WindowAssumption` (PollStore: times are naturals, and the
window and the clock's range are not empty),
`SnapshotterAssumption` (finitely many voters, `Late <= Grace`), `IngestAssumption` (the inequalities
of section 3), `ApplyingAssumption` (types, finitely many voters) and `RulesAssumption` (types, and
that the limits fit their integer widths).

| theorem | says | assumes of the environment |
|---|---|---|
| **CountingProofs** | | |
| `TypeCorrect` | `Spec => []TypeOK` | |
| `TallyIsExact` | `Spec => []TallyExact` | |
| `FirstBallotIsFinal` | `Spec => FirstBallotStands` | |
| **CommitProofs** | | |
| `NoVoteLost` | `Reliable => (Spec => []CommittedIsSettled)` | `Reliable`: the first three constants of section 3 |
| **BallotBoxProofs** | | |
| `ImplementsBallotBox` | `Spec => BallotBoxSpec` | |
| **ApplyingProofs** | | |
| `ApplyingTypeCorrect` | `Spec => []TypeOK` | |
| `BreakerDropsNothingHolds` | `Spec => []BreakerDropsNothing` | |
| `CountedOnceHolds` | `Spec => []CountedOnce` | `Window <= SafetyMargin` |
| `CountersOutliveDrainHolds` | `Spec => []CountersOutliveDrain` | `Window <= SafetyMargin` |
| **SnapshotterProofs** | | |
| `SnapshotterTypeCorrect` | `Spec => []TypeOK` | |
| `StatusIsSafe` | `Spec => StatusFollowsFSM` | |
| `NeverDoubleCountsHolds` | `Spec => []NeverDoubleCounts` | |
| `PercentHolds` | `Spec => []PercentWithinBounds` | |
| `ResultGrows` | `Spec => ResultNeverShrinks` | |
| `FinalIsExactHolds` | `Spec => []FinalIsExact` | `LagComplete` |
| `FinalAnswerHolds` | `Spec => []FinalAnswerIsExact` | `LagComplete` |
| **IngestProofs** | | |
| `IngestTypeCorrect` | `Spec => []TypeOK` | |
| `InWindowIsCountedHolds` | `Spec => []InWindowIsCounted` | |
| `NoRequestLostHolds` | `Spec => []NoRequestLost` | in `IngestAssumption`: `ShutdownGrace` outlasts the debug server and a request |
| `VotesLandInTime` | `Spec => LandsInTime` | |
| `FinalIsFinal` | `Spec => NoVoteAfterFinal` | in `IngestAssumption`: `Grace > Late` |
| **PollRulesProofs** | | |
| `StoredPollsScan` | `Spec => []EveryRowScans` | |
| `EveryPollCanBeVotedIn` | `Spec => []EveryPollHasABallot` | |
| `BallotIsASet` | `Spec => []ValidIsASet` | |
| `CapacityIsEnough` | `Spec => []CapacityDrains` | |
| `WaitingVotesHaveConsumers` | `Spec => []VotesHaveConsumers` | `LagComplete` |
| `BroadcastIsCoveredHolds` | `Spec => []BroadcastIsCovered` | `LagComplete` |

The hypotheses are needed: without them the runs `fetch_error` (one part of `Reliable`), `lag_error`
and `long_window` violate the same properties, and so does `poll_rules` with `LagComplete` set to
`FALSE` (`VotesHaveConsumers`).  The theorems on Counting without a hypothesis hold with none of the
constants of section 3: votes may then be lost, but the tally of those counted is exact.

*Types.*  `TypeOK` alone is not inductive: `Apply` runs the script on whatever record the worker
holds.  `TypeInv` adds that offsets are ordered (`committed <= head <= Len(log)`) and that a record
in a worker's hands is on the topic, is a vote, and in `applying` has a voter id that parsed.

*Tally.*  `TallyInv` adds `DedupMatchesBallots`: a dedup key is set for exactly the voters with a
ballot.  `VoteScript` either changes nothing or adds one voter to one shard; the cardinality of the
counted voters grows by one there and nowhere else (`FS_AddElement`).  `RedisSteps` shows that no
other action touches Redis, so crashes and rebalances need no argument of their own.

*No vote lost.*  A committed offset is only as good as what the committing consumer did, so the
invariant follows a record backwards: `PolledIsCovered` says that every record below the head of
an owned partition is settled or still in the batch of its owner, unless that owner is shutting
down (then its commit is cancelled).  A task leaves the batch without counting only if its record
is settled (`TaskLeaves`): the window check needs that a cached window is the announced or the
stored one (`CachedWindowKnown`), a lookup that gives up needs that the votes of a finalized poll
are settled (`RecordsOfPolls`).  `SettledStays` says that settled is for ever, which is where a
window that could move twice would break the argument.  Their conjunction `SafeInv` with `TypeInv`
is inductive.

*Refinement.*  The votes on the topic are the cast ones; a step of `Apply` or `ApplyLost` that finds
no dedup key is `Record`, everything else but `Produce` a stuttering step.  It needs
`ApplyingInWindow`: the window was checked with a possibly stale copy, and the record still lies in
the largest window the poll can have.

*Breaker and expiry.*  `ApplyInv` needs `BreakerOk` for the types already: a result subtracts a call
from `current` and may add a failure, and failures never exceed requests only because a call that is
still out counts against them (`failures + Cardinality(current) <= requests`).  A task of a running
process ends uncounted only if its vote is invalid or was refused for good; else it ends on a script
that ran or found the key, and `KeyInv` says that a key stands for a counted voter.  The second
invariant, `DrainInv`, is about time: a voter is either uncounted without a key or counted once with a
key that lasts to the `Horizon`, and a hash that has a ballot lasts as long.  It rests on one piece of
arithmetic, `JitterBound`: a TTL with a jitter of at most J percent, rounded down, is not below the
TTL less J percent, and that is what `validateDedupInvariant` compares with the drain budget
(`TtlOutlivesDrain`).

*A version names a row* (PollStoreProofs).  `Transition` and `CloseNow` check the version and nothing
else, so what a writer concluded from the row it read must still hold when its version does.
`AdminInv` says so of the admin and `SeenInv` of every instance of the snapshotter: the version it
holds is not above the row's, and if it is equal, the row in its hands is the row.  It is inductive
because every write raises the version (`RowStep`: a row opens, closes, has its end moved while it is
open, or stays).  `StatusFollowsFSM` follows at once; alone it is not inductive.

*Snapshots.*  Aggregates are ordered counter by counter (`Below`).  `CounterInv` says that a shard's
counters are the tally of its counted voters, `ReadInv` that an instance's sum is `Below` the tally of
the shards it has read so far, whatever was counted meanwhile, and `ResultInv` that the stored result
is `Below` the tally of all.  `MergeMax` of two aggregates below a third is below it, which carries
`ReadInv` to `ResultInv`; being `Within` (no option above the ballots) survives `MergeMax` as well.
The tally of all shards is the sum of the tallies of some and of the others (`FS_Union`), because
the voters are finitely many.

*The last snapshot.*  `FinalInv` follows an instance from the moment it sees a lag of zero after the
grace period: as long as its version is current nothing can land any more, so the backlog stays empty,
its partial sum *is* the tally of the shards it has read, and what it has stored is the tally of
everything.  Its `Finalize` succeeds only with that version.  `ClosedInv` adds the two reads of
`Service.Results`: a status of closed that was read vouches for the aggregate that is read next.

*Ingest.*  `IngestInv` is a chain of deadlines.  `EndInv`: an admin moves the end of the window at
most once, to a time that has come, and a closed poll has waited `Grace` since.  `NodeInv`: a cache
whose end is not the row's is refreshed `MaxAge` after the move at the latest.  `Deadlines`: a
request received with such a cache is read `ReadTimeout` later, stamped `Pause` after that and sent
within `SendTimeout`, so it is over `Late` after the end.  `DrainAt`: a process whose listener is
still open after the signal got it at most `DebugTime` ago, which bounds both the age of its frozen
cache and what its requests have left of the deadline.  `Waited`: counted from the signal the same
chain ends before the process stops waiting.  `TypeOK` says that a committed record has been decided;
that one record is counted and dropped, by consumers with different windows, is possible and
allowed.  `LandsInTime` is the end of the chain, `NoVoteAfterFinal` the comparison of `Late` with
`Grace`.

*Poll rules.*  `StoreInv` remembers where a stored poll came from: `NewPoll` of a spec that was valid
at some time, of which opening, closing and finalizing have since changed the status, the version and
the end of the window only.  Three theorems then are about that one spec: the shard count stays in
range because a factor of at most `MaxShardCount \div ShardsPerMaster` keeps the product below the
limit; the first `minChoices` options are always a valid ballot; and a list without repetitions is a
set of the same size (a surjection from `1 .. n` is injective just when its image has n elements), the
bounds of which are those of the poll because a single-choice poll has both set to 1 (`StoredBounds`).
`CeilUnitsSuffice` is the arithmetic of `CapacityFor`: one more than the quotient, times the unit, is
above the load.  For the advisor, `WaitInv` says that a vote on the topic keeps some poll open: a vote
lands only while its poll is open, and no poll is finalized while any vote waits.  Such a poll is live
or, with a lag that is positive or unknown, draining, so the advice is one of these two; and a poll
that expects votes is given a consumer (`CapacityHasConsumers`).  `BroadcastIsCovered` puts both
together: a lone poll is near, live or draining at every moment it needs capacity, `WaitInv` keeps it
among the active ones while a vote waits, and what it is then given is `CapacityFor` its expected
votes, which `CeilUnitsSuffice` shows to carry them.

*Only model-checked*: the liveness properties `EveryVoteSettled`, `DrainReachesZero`,
`EveryVoteApplied`, `EventuallyClosed` and `TopicIsDecided`; fairness and `ENABLED` are beyond the
prover.

## 6. What is not modelled

* The **rate limiter**: its counters are a library's, per process and per address, and a refused
  request never reaches `Accept`.
* The float arithmetic of `ExpectedVotes` at the limit of int64 and of `CapacityFor`.
* The audit record and the listing of polls, which nothing else reads.
* The answers of the **probes**.  That readiness is dropped at the signal is not used: Ingest lets
  requests arrive for as long as the listener is open.
* Fractions of a second in `TtlFor`: its clock counts whole seconds, the unit the code truncates a TTL
  to.  With a TTL that is not a whole number of seconds a key may last up to one second less than
  `validate` compares.
* A **Postgres outage** in Ingest and a replica that lags: nothing in the code bounds the age of a
  snapshot then (section 3).
* **Configuration** beyond durations and ratios: parsing, secrets, addresses, sampling.
* **Authentication, routing, metrics, tracing, migrations, connections**: stateless, cryptographic or
  pure I/O.

## 7. Plan

Done, in this order: Domain, Counting with its proofs, BallotBox, PollStore, Snapshotter, Ingest,
PollRules with its proofs; then Config and Applying (breaker and expiry), the other polls of
Snapshotter, the advisor in PollRules with its proof, and the life of an API process in Ingest.

Then the proofs of Snapshotter, Ingest and Applying, on top of PollStoreProofs, and the rest of
PollRules.

Next, models: a composition of Ingest, Counting and Snapshotter, from `202` to the final result, and
Snapshotter's votes as an abstraction of Counting.
With them, proofs: that the votes Snapshotter lets land, count and commit are what Counting delivers,
and that what Ingest shows of the topic (`LandsInTime`, `NoVoteAfterFinal`) is what Snapshotter and
Counting assume of it.
