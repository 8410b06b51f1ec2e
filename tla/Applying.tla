------------------------------ MODULE Applying ------------------------------
(* One consumer's workers apply votes to Redis (applyWithRetry in            *)
(* internal/service/counting) through the circuit breaker they share, while  *)
(* Redis comes and goes and its keys expire (internal/adapter/redis).        *)
(* Counting has the batches and the offsets and keeps every key for ever;    *)
(* here are the breaker and the clock.                                       *)
EXTENDS Config

CONSTANTS
  Workers,
  Deliveries, VoterOf,     \* the deliveries of votes, and whose vote each is
  Invalid,                 \* deliveries that validateVote refuses
  Voters, Shards, ShardOf,
  Frac,                    \* Frac[v]: the hash of v, scaled to -100 .. 100
  MinRequests,             \* breakerMinRequests
  Window,                  \* for how long the poll takes votes
  Configs                  \* the environments the process may be started with

ASSUME ApplyingAssumption ==
  /\ IsFiniteSet(Voters)
  /\ VoterOf \in [Deliveries -> Voters] /\ Invalid \subseteq Deliveries
  /\ ShardOf \in [Voters -> Shards] /\ Frac \in [Voters -> -100 .. 100]
  /\ {SafetyMargin, Window} \subseteq Nat /\ MinRequests \in Nat \ {0}
  /\ Configs \subseteq Configuration

VARIABLES
  cfg,       \* the configuration of the process
  now,       \* time since the poll opened
  redisUp,
  breaker,   \* gobreaker: [state, requests, failures, due, current]
  task,      \* task[w]: [step, delivery]
  done,      \* deliveries whose task has ended
  ctxDone,
  key,       \* Redis: key[v], when v's dedup key expires, or 0
  counter,   \* Redis: counter[s], the ballots and when the hash expires
  times,     \* history: how often v was counted
  refused    \* history: deliveries that a permanent error of Redis ended

redisVars == <<key, counter, times>>
vars == <<cfg, now, redisUp, breaker, task, done, ctxDone, refused, redisVars>>

NoTask == [step |-> "idle"]
NoHash == [ballots |-> 0, until |-> 0]

(* Counting starts when the poll opens and ends within DRAIN_WINDOW and the  *)
(* grace period of its close.                                                *)
Horizon == Window + cfg.drainWindow + cfg.finalGrace

-----------------------------------------------------------------------------
(* The breaker.  current holds the workers whose request belongs to the      *)
(* present generation: the result of an older one is ignored.                *)
Generation(state) ==
  [state |-> state, requests |-> 0, failures |-> 0, due |-> FALSE, current |-> {}]

(* currentState: a timer that has run out takes effect with the next call.   *)
CurrentState ==
  IF ~breaker.due THEN breaker
  ELSE Generation(IF breaker.state = "closed" THEN "closed" ELSE "halfOpen")

(* beforeRequest lets a call pass; in the half-open state one is enough.     *)
Admits(b) == b.state = "closed" \/ (b.state = "halfOpen" /\ b.requests < 1)

ReadyToTrip(b) ==
  b.requests >= MinRequests /\ b.failures * 100 >= cfg.breakerRatio * b.requests

(* Mutant: the failed probe leaves the breaker half-open.                    *)
AfterFailureKeepsProbe(w) ==
  LET b == CurrentState
      c == [b EXCEPT !.failures = @ + 1, !.current = @ \ {w}] IN
  IF w \notin b.current THEN b
  ELSE IF b.state = "halfOpen" THEN c
  ELSE IF ReadyToTrip(c) THEN Generation("open") ELSE c

(* Mutant: a late failure counts against the generation it finds.            *)
AfterFailureAnyGeneration(w) ==
  LET b == CurrentState
      c == [b EXCEPT !.failures = @ + 1, !.current = @ \ {w}] IN
  IF b.state = "halfOpen" \/ ReadyToTrip(c) THEN Generation("open") ELSE c

(* afterRequest, when the call failed and when it succeeded.                 *)
AfterFailure(w) ==
  LET b == CurrentState
      c == [b EXCEPT !.failures = @ + 1, !.current = @ \ {w}] IN
  IF w \notin b.current THEN b
  ELSE IF b.state = "halfOpen" \/ ReadyToTrip(c) THEN Generation("open")
  ELSE c

AfterSuccess(w) ==
  LET b == CurrentState IN
  IF w \notin b.current THEN b
  ELSE IF b.state = "halfOpen" THEN Generation("closed")
  ELSE [b EXCEPT !.current = @ \ {w}]

-----------------------------------------------------------------------------
TypeOK ==
  /\ cfg \in Configs /\ now \in Nat /\ {redisUp, ctxDone} \subseteq BOOLEAN
  /\ breaker \in [state : {"closed", "open", "halfOpen"}, requests : Nat, failures : Nat,
                  due : BOOLEAN, current : SUBSET Workers]
  /\ breaker.failures <= breaker.requests
  /\ task \in [Workers -> {NoTask} \cup [step : {"try", "call", "wait"}, delivery : Deliveries]]
  /\ done \subseteq Deliveries /\ refused \subseteq done
  /\ key \in [Voters -> Nat] /\ times \in [Voters -> Nat]
  /\ counter \in [Shards -> [ballots : Nat, until : Nat]]

(* LoadFrom refuses to start with an environment that is not valid.          *)
Init ==
  /\ cfg \in {c \in Configs : ValidConfig(c)}
  /\ now = 0 /\ redisUp = TRUE /\ ctxDone = FALSE
  /\ breaker = Generation("closed")
  /\ task = [w \in Workers |-> NoTask]
  /\ done = {} /\ refused = {}
  /\ key = [v \in Voters |-> 0]
  /\ counter = [s \in Shards |-> NoHash]
  /\ times = [v \in Voters |-> 0]

(* Time passes and Redis drops what has expired.                             *)
Tick ==
  /\ now + 1 < Horizon
  /\ now' = now + 1
  /\ key' = [v \in Voters |-> IF key[v] > now + 1 THEN key[v] ELSE 0]
  /\ counter' = [s \in Shards |-> IF counter[s].until > now + 1 THEN counter[s] ELSE NoHash]
  /\ UNCHANGED <<cfg, redisUp, breaker, task, done, ctxDone, refused, times>>

RedisFails ==
  /\ redisUp /\ redisUp' = FALSE
  /\ UNCHANGED <<cfg, now, breaker, task, done, ctxDone, refused, redisVars>>

RedisRecovers ==
  /\ ~redisUp /\ redisUp' = TRUE
  /\ UNCHANGED <<cfg, now, breaker, task, done, ctxDone, refused, redisVars>>

(* BREAKER_WINDOW has passed since the generation began; a half-open one has *)
(* no limit.                                                                 *)
TimerRunsOut ==
  /\ breaker.state # "halfOpen" /\ ~breaker.due
  /\ breaker' = [breaker EXCEPT !.due = TRUE]
  /\ UNCHANGED <<cfg, now, redisUp, task, done, ctxDone, refused, redisVars>>

-----------------------------------------------------------------------------
Step(w, step) == task' = [task EXCEPT ![w].step = step]

Return(w) ==
  /\ done' = done \cup {task[w].delivery}
  /\ task' = [task EXCEPT ![w] = NoTask]

Take(w, d) ==
  /\ task[w] = NoTask
  /\ d \notin done
  /\ \A u \in Workers : task[u] # NoTask => task[u].delivery # d
  /\ task' = [task EXCEPT ![w] = [step |-> "try", delivery |-> d]]
  /\ UNCHANGED <<cfg, now, redisUp, breaker, done, ctxDone, refused, redisVars>>

(* Execute is let through: the request counts from here on.                  *)
Execute(w) ==
  LET b == CurrentState IN
  /\ task[w].step = "try"
  /\ Admits(b)
  /\ breaker' = [b EXCEPT !.requests = @ + 1, !.current = @ \cup {w}]
  /\ Step(w, "call")
  /\ UNCHANGED <<cfg, now, redisUp, done, ctxDone, refused, redisVars>>

(* Mutant: ErrTooManyRequests is not on the list of retryable.               *)
RejectedGivesUp(w) ==
  LET b == CurrentState IN
  /\ task[w].step = "try"
  /\ ~Admits(b)
  /\ breaker' = b
  /\ IF b.state = "open" THEN Step(w, "wait") /\ UNCHANGED done ELSE Return(w)
  /\ UNCHANGED <<cfg, now, redisUp, ctxDone, refused, redisVars>>

(* ErrOpenState or ErrTooManyRequests: both are retryable.                   *)
Rejected(w) ==
  LET b == CurrentState IN
  /\ task[w].step = "try"
  /\ ~Admits(b)
  /\ breaker' = b
  /\ Step(w, "wait")
  /\ UNCHANGED <<cfg, now, redisUp, done, ctxDone, refused, redisVars>>

(* The backoff ends; a cancelled context ends the task instead.              *)
Retry(w) ==
  /\ task[w].step = "wait"
  /\ Step(w, "try")
  /\ UNCHANGED <<cfg, now, redisUp, breaker, done, ctxDone, refused, redisVars>>

GiveUp(w) ==
  /\ task[w].step = "wait"
  /\ ctxDone
  /\ Return(w)
  /\ UNCHANGED <<cfg, now, redisUp, breaker, ctxDone, refused, redisVars>>

(* ttlSecondsFor: the TTL moved by the jitter, in the direction of the hash, *)
(* and cut to whole seconds, the unit of the clock and of all settings here. *)
TtlFor(v) ==
  Larger(1, (cfg.dedupTTL * (10000 + cfg.dedupJitter * Frac[v])) \div 10000)

(* Mutant: the dedup key is given the drain window to live.                  *)
VoteScriptShortKey(v) ==
  IF key[v] # 0 THEN UNCHANGED redisVars
  ELSE LET s == ShardOf[v] IN
       /\ key' = [key EXCEPT ![v] = now + cfg.drainWindow]
       /\ counter' = [counter EXCEPT ![s] =
                        [ballots |-> @.ballots + 1, until |-> now + TtlFor(v)]]
       /\ times' = [times EXCEPT ![v] = @ + 1]

(* vote.lua: SET NX EX, HINCRBY, EXPIRE, with one TTL for both keys.         *)
VoteScript(v) ==
  IF key[v] # 0 THEN UNCHANGED redisVars
  ELSE LET s == ShardOf[v] IN
       /\ key' = [key EXCEPT ![v] = now + TtlFor(v)]
       /\ counter' = [counter EXCEPT ![s] =
                        [ballots |-> @.ballots + 1, until |-> now + TtlFor(v)]]
       /\ times' = [times EXCEPT ![v] = @ + 1]

(* The script ran and its answer is back.                                    *)
CallSucceeds(w) ==
  /\ task[w].step = "call"
  /\ task[w].delivery \notin Invalid
  /\ redisUp
  /\ VoteScript(VoterOf[task[w].delivery])
  /\ breaker' = AfterSuccess(w)
  /\ Return(w)
  /\ UNCHANGED <<cfg, now, redisUp, ctxDone, refused>>

(* The script ran, and the answer did not come within REDIS_CMD_TIMEOUT.     *)
CallLost(w) ==
  /\ task[w].step = "call"
  /\ task[w].delivery \notin Invalid
  /\ redisUp
  /\ VoteScript(VoterOf[task[w].delivery])
  /\ breaker' = AfterFailure(w)
  /\ Step(w, "wait")
  /\ UNCHANGED <<cfg, now, redisUp, done, ctxDone, refused>>

(* ErrStoreUnavailable, an outage or a reply that transient lists: the       *)
(* script did not run.                                                       *)
CallFails(w) ==
  /\ task[w].step = "call"
  /\ task[w].delivery \notin Invalid
  /\ ~redisUp
  /\ breaker' = AfterFailure(w)
  /\ Step(w, "wait")
  /\ UNCHANGED <<cfg, now, redisUp, done, ctxDone, refused, redisVars>>

(* Redis answers with an error that transient does not list (WRONGTYPE, ERR  *)
(* and others): the script did not run and the task ends.                    *)
CallPermanent(w) ==
  /\ task[w].step = "call"
  /\ task[w].delivery \notin Invalid
  /\ redisUp
  /\ breaker' = AfterFailure(w)
  /\ Return(w)
  /\ refused' = refused \cup {task[w].delivery}
  /\ UNCHANGED <<cfg, now, redisUp, ctxDone, redisVars>>

(* An error before Redis that is not retryable: validateVote's, or that of   *)
(* the cancelled context (ErrClosing comes after it, as the client is closed *)
(* last).  The breaker counts both as failures of Redis.                     *)
CallRefused(w) ==
  /\ task[w].step = "call"
  /\ task[w].delivery \in Invalid \/ ctxDone
  /\ breaker' = AfterFailure(w)
  /\ Return(w)
  /\ UNCHANGED <<cfg, now, redisUp, ctxDone, refused, redisVars>>

-----------------------------------------------------------------------------
(* SIGTERM.  Nothing of the batch is committed then, and the next process is *)
(* handed all of it again, what was counted included.                        *)
Shutdown ==
  /\ ~ctxDone /\ ctxDone' = TRUE
  /\ UNCHANGED <<cfg, now, redisUp, breaker, task, done, refused, redisVars>>

Restart ==
  /\ ctxDone /\ ctxDone' = FALSE
  /\ \A w \in Workers : task[w] = NoTask
  /\ breaker' = Generation("closed")
  /\ done' = {} /\ refused' = {}
  /\ UNCHANGED <<cfg, now, redisUp, task, redisVars>>

WorkerStep(w) ==
  \/ \E d \in Deliveries : Take(w, d)
  \/ Execute(w) \/ Rejected(w) \/ Retry(w) \/ GiveUp(w)
  \/ CallSucceeds(w) \/ CallFails(w) \/ CallRefused(w)

Fault == RedisFails \/ Shutdown \/ \E w \in Workers : CallLost(w) \/ CallPermanent(w)

Next ==
  \/ Tick \/ TimerRunsOut \/ RedisRecovers \/ Restart \/ Fault
  \/ \E w \in Workers : WorkerStep(w)

Spec == Init /\ [][Next]_vars

(* Go runs every worker and fires its timers, Redis comes back, and a        *)
(* process that ended is started again.                                      *)
Fairness ==
  /\ WF_vars(TimerRunsOut) /\ WF_vars(RedisRecovers) /\ WF_vars(Restart)
  /\ \A w \in Workers : WF_vars(WorkerStep(w))

FairSpec == Spec /\ Fairness

-----------------------------------------------------------------------------
(* A voter is counted once, whatever is repeated, retried or delivered       *)
(* again: no dedup key expires before the drain is over, for every           *)
(* configuration that validateDedupInvariant lets start (vote.lua).          *)
CountedOnce == \A v \in Voters : times[v] <= 1

(* Until the drain is over the counters hold every vote that was counted,    *)
(* although each vote sets their expiry again with a TTL of its own (EXPIRE  *)
(* in vote.lua).                                                             *)
CountersOutliveDrain ==
  \A s \in Shards :
    counter[s].ballots = Cardinality({v \in Voters : ShardOf[v] = s /\ times[v] > 0})

(* A task ends without its vote counted only if the vote is invalid, Redis   *)
(* gave it a permanent error or the process is shutting down: no outage, no  *)
(* transient error, no lost answer and no state of the breaker drops a vote, *)
(* whatever the other workers' calls did to the breaker (retryable).         *)
BreakerDropsNothing ==
  ~ctxDone => \A d \in done \ (Invalid \cup refused) : times[VoterOf[d]] > 0

(* Once faults cease every vote is applied: the breaker closes again, and a  *)
(* worker that it refused has its turn (applyWithRetry).                     *)
EveryVoteApplied == (<>[][~Fault]_vars) => <>[](done = Deliveries)

=============================================================================
