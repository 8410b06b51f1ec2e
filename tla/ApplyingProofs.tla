---------------------------- MODULE ApplyingProofs ----------------------------
(* Theorems about Applying, for any number of workers, deliveries, voters    *)
(* and shards and for every configuration that validate lets start.          *)
EXTENDS Applying, TLAPS, FiniteSetTheorems

-----------------------------------------------------------------------------
(* The breaker.  A request of the present generation is in current until its *)
(* result is in, and only then it may be a failure.                          *)
Breaker ==
  [state : {"closed", "open", "halfOpen"}, requests : Nat, failures : Nat,
   due : BOOLEAN, current : SUBSET Workers]

BreakerOk(b) ==
  /\ b \in Breaker
  /\ IsFiniteSet(b.current)
  /\ b.failures + Cardinality(b.current) <= b.requests

LEMMA GenerationOk ==
  ASSUME NEW state \in {"closed", "open", "halfOpen"}
  PROVE  BreakerOk(Generation(state))
<1>1. IsFiniteSet({}) /\ Cardinality({}) = 0
  BY FS_EmptySet
<1> QED
  BY <1>1 DEF Generation, BreakerOk, Breaker

LEMMA CurrentStateOk ==
  ASSUME BreakerOk(breaker)
  PROVE  BreakerOk(CurrentState)
BY GenerationOk DEF CurrentState

LEMMA DueOk ==
  ASSUME BreakerOk(breaker)
  PROVE  BreakerOk([breaker EXCEPT !.due = TRUE])
BY DEF BreakerOk, Breaker

LEMMA AdmittedOk ==
  ASSUME NEW b, BreakerOk(b), NEW w \in Workers
  PROVE  BreakerOk([b EXCEPT !.requests = @ + 1, !.current = @ \cup {w}])
<1> DEFINE c == b.current \cup {w}
           p == [b EXCEPT !.requests = b.requests + 1]
           q == [p EXCEPT !.current = c]
<1>0. /\ b \in Breaker /\ b.requests \in Nat /\ b.failures \in Nat
      /\ b.current \in SUBSET Workers /\ IsFiniteSet(b.current)
      /\ b.failures + Cardinality(b.current) <= b.requests
  BY DEF BreakerOk, Breaker
<1>1. /\ IsFiniteSet(c) /\ Cardinality(c) \in Nat /\ Cardinality(b.current) \in Nat
      /\ Cardinality(c) <= Cardinality(b.current) + 1
  <2>1. /\ IsFiniteSet(c)
        /\ Cardinality(c) = IF w \in b.current THEN Cardinality(b.current)
                            ELSE Cardinality(b.current) + 1
    BY <1>0, FS_AddElement
  <2>2. Cardinality(b.current) \in Nat
    BY <1>0, FS_CardinalityType
  <2> QED
    BY <2>1, <2>2
<1>2. /\ p \in Breaker /\ p.requests = b.requests + 1 /\ p.failures = b.failures
  BY <1>0 DEF Breaker
<1>3. c \in SUBSET Workers
  BY <1>0
<1> HIDE DEF p, c
<1>4. q \in Breaker /\ q.current = c /\ q.requests = b.requests + 1 /\ q.failures = b.failures
  BY <1>2, <1>3 DEF Breaker
<1> HIDE DEF q
<1>5. BreakerOk(q)
  BY <1>0, <1>1, <1>4 DEF BreakerOk
<1> QED
  BY <1>5 DEF q, p, c

(* A result takes its request out of current, whether it failed or not.      *)
LEMMA ReportedOk ==
  ASSUME NEW b, BreakerOk(b), NEW w \in b.current
  PROVE  /\ BreakerOk([b EXCEPT !.failures = @ + 1, !.current = @ \ {w}])
         /\ BreakerOk([b EXCEPT !.current = @ \ {w}])
<1> DEFINE c == b.current \ {w}
           p == [b EXCEPT !.failures = b.failures + 1]
           q == [p EXCEPT !.current = c]
           o == [b EXCEPT !.current = c]
<1>0. /\ b \in Breaker /\ b.requests \in Nat /\ b.failures \in Nat
      /\ b.current \in SUBSET Workers /\ IsFiniteSet(b.current)
      /\ b.failures + Cardinality(b.current) <= b.requests
  BY DEF BreakerOk, Breaker
<1>1. /\ IsFiniteSet(c) /\ Cardinality(c) \in Nat /\ Cardinality(b.current) \in Nat
      /\ Cardinality(c) = Cardinality(b.current) - 1
  BY <1>0, FS_RemoveElement, FS_CardinalityType
<1>2. /\ p \in Breaker /\ p.requests = b.requests /\ p.failures = b.failures + 1
  BY <1>0 DEF Breaker
<1>3. c \in SUBSET Workers
  BY <1>0
<1> HIDE DEF p, c
<1>4. /\ q \in Breaker /\ q.current = c /\ q.requests = b.requests /\ q.failures = b.failures + 1
      /\ o \in Breaker /\ o.current = c /\ o.requests = b.requests /\ o.failures = b.failures
  BY <1>0, <1>2, <1>3 DEF Breaker
<1> HIDE DEF q, o
<1>5. BreakerOk(q) /\ BreakerOk(o)
  BY <1>0, <1>1, <1>4 DEF BreakerOk
<1> QED
  BY <1>5 DEF q, o, p, c

LEMMA AfterRequestOk ==
  ASSUME BreakerOk(breaker), NEW w \in Workers
  PROVE  BreakerOk(AfterFailure(w)) /\ BreakerOk(AfterSuccess(w))
<1> DEFINE b == CurrentState
<1>1. BreakerOk(b)
  BY CurrentStateOk
<1>2. BreakerOk(Generation("open")) /\ BreakerOk(Generation("closed"))
  BY GenerationOk
<1> HIDE DEF b
<1>3. w \in b.current =>
        /\ BreakerOk([b EXCEPT !.failures = @ + 1, !.current = @ \ {w}])
        /\ BreakerOk([b EXCEPT !.current = @ \ {w}])
  BY <1>1, ReportedOk
<1> QED
  BY <1>1, <1>2, <1>3 DEF AfterFailure, AfterSuccess, b

-----------------------------------------------------------------------------
(* The shortest life of a key is the TTL less the jitter, which validate     *)
(* compares with the drain budget.                                           *)
Jittered(T, J, F) == (T * (10000 + J * F)) \div 10000
Covers(T, J, B)   == T * (100 - J) >= B * 100

LEMMA JitterBound ==
  ASSUME NEW T \in Nat, NEW J \in 0 .. 50, NEW F \in -100 .. 100, NEW B \in Nat, Covers(T, J, B)
  PROVE  Jittered(T, J, F) \in Int /\ Jittered(T, J, F) >= B
<1> DEFINE k == J * (F + 100)
           x == 10000 + J * F
           y == T * (100 - J)
<1>1. k \in Int /\ k >= 0
  BY SMT
<1>2. x = 100 * (100 - J) + k
  BY SMT
<1>3. T * x = 100 * y + T * k
  BY <1>2, SMT
<1>4. T * k >= 0 /\ T * k \in Int
  <2> HIDE DEF k
  <2> QED
    BY <1>1
<1>5. y \in Int /\ y >= B * 100
  BY DEF Covers
<1> DEFINE z == T * x
           e == T * k
<1>6. z = 100 * y + e /\ e >= 0 /\ e \in Int
  BY <1>3, <1>4
<1> HIDE DEF k, y, e
<1>7. z \in Int /\ z >= 10000 * B
  BY <1>5, <1>6
<1> HIDE DEF z
<1>8. z \div 10000 \in Int /\ z \div 10000 >= B
  BY <1>7
<1> QED
  BY <1>8 DEF z, Jittered

LEMMA TtlOutlivesDrain ==
  ASSUME NEW v \in Voters, cfg \in Configs, ValidConfig(cfg)
  PROVE  /\ TtlFor(v) \in Nat /\ TtlFor(v) >= 1 /\ TtlFor(v) >= DrainBudget(cfg)
         /\ cfg.drainWindow \in Nat /\ cfg.finalGrace \in Nat /\ cfg.drainWindow > 0
         /\ DrainBudget(cfg) \in Nat
<1>1. /\ cfg.dedupTTL \in Nat /\ cfg.dedupJitter \in 0 .. 50 /\ cfg.drainWindow \in Nat
      /\ cfg.finalGrace \in Nat /\ cfg.drainWindow > 0 /\ cfg.dedupTTL > 0
  <2>1. cfg \in Configuration
    BY ApplyingAssumption
  <2> QED
    BY <2>1 DEF Configuration, ValidConfig, ValidDrain, ValidDedup, ValidSnapshots
<1>2. Frac[v] \in -100 .. 100 /\ SafetyMargin \in Nat
  BY ApplyingAssumption
<1>3. DrainBudget(cfg) \in Nat
  BY <1>1, <1>2 DEF DrainBudget
<1>4. Covers(cfg.dedupTTL, cfg.dedupJitter, DrainBudget(cfg))
  BY <1>1 DEF ValidConfig, DedupInvariant, Covers
<1> DEFINE q == Jittered(cfg.dedupTTL, cfg.dedupJitter, Frac[v])
<1>5. q \in Int /\ q >= DrainBudget(cfg)
  BY <1>1, <1>2, <1>3, <1>4, JitterBound
<1>6. TtlFor(v) = Larger(1, q)
  BY DEF TtlFor, Jittered
<1> HIDE DEF q
<1>7. Larger(1, q) \in Nat /\ Larger(1, q) >= 1 /\ Larger(1, q) >= DrainBudget(cfg)
  BY <1>3, <1>5 DEF Larger
<1> QED
  BY <1>1, <1>3, <1>6, <1>7

-----------------------------------------------------------------------------
(* The inductive invariants.  While a key lives its voter has been counted,  *)
(* so a repeat that the script skips needs no vote.                          *)
KeyInv == \A v \in Voters : key[v] # 0 => times[v] > 0

ApplyInv ==
  TypeOK /\ ValidConfig(cfg) /\ BreakerOk(breaker) /\ KeyInv /\ BreakerDropsNothing

(* A key or a hash that was written at all outlives the drain: its TTL is    *)
(* the drain budget at least, and the budget is not shorter than the drain   *)
(* when the window is within the safety margin.                              *)
OnceAt(v) ==
  \/ times[v] = 0 /\ key[v] = 0
  \/ times[v] = 1 /\ key[v] >= Horizon

CountedIn(s) == { v \in Voters : ShardOf[v] = s /\ times[v] > 0 }

HashAt(s) ==
  /\ counter[s].ballots = Cardinality(CountedIn(s))
  /\ counter[s].ballots > 0 => counter[s].until >= Horizon

DrainInv ==
  /\ now < Horizon
  /\ \A v \in Voters : OnceAt(v)
  /\ \A s \in Shards : HashAt(s)

-----------------------------------------------------------------------------
Busy == [step : {"try", "call", "wait"}, delivery : Deliveries]

LEMMA AtWork ==
  ASSUME TypeOK, NEW w \in Workers, task[w].step \in {"try", "call", "wait"}
  PROVE  task[w] \in Busy /\ task[w].delivery \in Deliveries
BY DEF TypeOK, NoTask, Busy

LEMMA StepShape ==
  ASSUME TypeOK, NEW w \in Workers, task[w].step \in {"try", "call", "wait"},
         NEW step \in {"try", "call", "wait"}, Step(w, step)
  PROVE  task' \in [Workers -> {NoTask} \cup Busy]
<1>1. task[w] \in Busy /\ task \in [Workers -> {NoTask} \cup Busy]
  BY AtWork DEF TypeOK, Busy
<1>2. [task[w] EXCEPT !.step = step] \in Busy
  BY <1>1 DEF Busy
<1>3. task' = [task EXCEPT ![w] = [task[w] EXCEPT !.step = step]]
  BY DEF Step
<1> QED
  BY <1>1, <1>2, <1>3

LEMMA ReturnShape ==
  ASSUME TypeOK, NEW w \in Workers, task[w].step \in {"try", "call", "wait"}, Return(w)
  PROVE  task' \in [Workers -> {NoTask} \cup Busy] /\ done' \subseteq Deliveries
<1>1. task[w].delivery \in Deliveries /\ task \in [Workers -> {NoTask} \cup Busy]
      /\ done \subseteq Deliveries
  BY AtWork DEF TypeOK, Busy
<1> QED
  BY <1>1 DEF Return

LEMMA TaskStep ==
  ASSUME TypeOK, [Next]_vars
  PROVE  task' \in [Workers -> {NoTask} \cup Busy] /\ done' \subseteq Deliveries
<1>0. task \in [Workers -> {NoTask} \cup Busy] /\ done \subseteq Deliveries
  BY DEF TypeOK, Busy
<1>1. CASE Tick \/ TimerRunsOut \/ RedisRecovers \/ RedisFails \/ Shutdown \/ Restart \/ UNCHANGED vars
  BY <1>0, <1>1 DEF Tick, TimerRunsOut, RedisRecovers, RedisFails, Shutdown, Restart, vars
<1>2. ASSUME NEW w \in Workers, NEW d \in Deliveries, Take(w, d)
      PROVE  task' \in [Workers -> {NoTask} \cup Busy] /\ done' = done
  <2>1. [step |-> "try", delivery |-> d] \in Busy
    BY DEF Busy
  <2> QED
    BY <1>0, <1>2, <2>1 DEF Take
<1>3. ASSUME NEW w \in Workers,
             Execute(w) \/ Rejected(w) \/ Retry(w) \/ CallFails(w) \/ CallLost(w)
      PROVE  task' \in [Workers -> {NoTask} \cup Busy] /\ done' = done
  <2>1. /\ task[w].step \in {"try", "call", "wait"} /\ done' = done
        /\ \E step \in {"try", "call", "wait"} : Step(w, step)
    BY <1>3 DEF Execute, Rejected, Retry, CallFails, CallLost
  <2> QED
    BY <2>1, StepShape
<1>4. ASSUME NEW w \in Workers, GiveUp(w) \/ CallSucceeds(w) \/ CallRefused(w) \/ CallPermanent(w)
      PROVE  task' \in [Workers -> {NoTask} \cup Busy] /\ done' \subseteq Deliveries
  <2>1. task[w].step \in {"try", "call", "wait"} /\ Return(w)
    BY <1>4 DEF GiveUp, CallSucceeds, CallRefused, CallPermanent
  <2> QED
    BY <2>1, ReturnShape
<1> QED
  BY <1>0, <1>1, <1>2, <1>3, <1>4 DEF Next, Fault, WorkerStep

LEMMA BreakerStep ==
  ASSUME BreakerOk(breaker), [Next]_vars
  PROVE  BreakerOk(breaker')
<1>1. CASE breaker' = breaker
  BY <1>1
<1>2. CASE TimerRunsOut
  BY <1>2, DueOk DEF TimerRunsOut
<1>3. CASE Restart
  BY <1>3, GenerationOk DEF Restart
<1>4. ASSUME NEW w \in Workers, Execute(w) PROVE BreakerOk(breaker')
  <2> DEFINE b == CurrentState
  <2>1. BreakerOk(b)
    BY CurrentStateOk
  <2>2. breaker' = [b EXCEPT !.requests = @ + 1, !.current = @ \cup {w}]
    BY <1>4 DEF Execute
  <2> HIDE DEF b
  <2> QED
    BY <2>1, <2>2, AdmittedOk
<1>5. ASSUME NEW w \in Workers, Rejected(w) PROVE BreakerOk(breaker')
  BY <1>5, CurrentStateOk DEF Rejected
<1>6. ASSUME NEW w \in Workers,
             CallSucceeds(w) \/ CallLost(w) \/ CallFails(w) \/ CallRefused(w) \/ CallPermanent(w)
      PROVE  BreakerOk(breaker')
  <2>1. breaker' = AfterFailure(w) \/ breaker' = AfterSuccess(w)
    BY <1>6 DEF CallSucceeds, CallLost, CallFails, CallRefused, CallPermanent
  <2> QED
    BY <2>1, AfterRequestOk
<1>7. ASSUME NEW w \in Workers, (\E d \in Deliveries : Take(w, d)) \/ Retry(w) \/ GiveUp(w)
      PROVE  breaker' = breaker
  BY <1>7 DEF Take, Retry, GiveUp
<1>8. Tick \/ RedisRecovers \/ RedisFails \/ Shutdown \/ UNCHANGED vars => breaker' = breaker
  BY DEF Tick, RedisRecovers, RedisFails, Shutdown, vars
<1> QED
  BY <1>1, <1>2, <1>3, <1>4, <1>5, <1>6, <1>7, <1>8 DEF Next, Fault, WorkerStep

-----------------------------------------------------------------------------
(* What a step does to Redis: nothing, the script for one voter, or expiry.  *)
Scripted == \E v \in Voters : VoteScript(v) /\ now' = now

LEMMA RedisSteps ==
  ASSUME TypeOK, [Next]_vars
  PROVE  /\ cfg' = cfg
         /\ Tick \/ (UNCHANGED redisVars /\ now' = now) \/ Scripted
<1>1. ASSUME NEW w \in Workers, CallSucceeds(w) \/ CallLost(w)
      PROVE  Scripted /\ cfg' = cfg
  <2>1. /\ task[w].step = "call" /\ VoteScript(VoterOf[task[w].delivery])
        /\ now' = now /\ cfg' = cfg
    BY <1>1 DEF CallSucceeds, CallLost
  <2>2. VoterOf[task[w].delivery] \in Voters
    BY <2>1, AtWork, ApplyingAssumption
  <2> QED
    BY <2>1, <2>2 DEF Scripted
<1>2. ASSUME NEW w \in Workers,
             \/ \E d \in Deliveries : Take(w, d)
             \/ Execute(w) \/ Rejected(w) \/ Retry(w) \/ GiveUp(w) \/ CallFails(w) \/ CallRefused(w)
             \/ CallPermanent(w)
      PROVE  UNCHANGED redisVars /\ now' = now /\ cfg' = cfg
  BY <1>2 DEF Take, Execute, Rejected, Retry, GiveUp, CallFails, CallRefused, CallPermanent
<1>3. TimerRunsOut \/ RedisRecovers \/ RedisFails \/ Shutdown \/ Restart \/ UNCHANGED vars
        => UNCHANGED redisVars /\ now' = now /\ cfg' = cfg
  BY DEF TimerRunsOut, RedisRecovers, RedisFails, Shutdown, Restart, vars
<1>4. Tick => cfg' = cfg
  BY DEF Tick
<1> QED
  BY <1>1, <1>2, <1>3, <1>4 DEF Next, Fault, WorkerStep

(* The script skips a voter whose key lives and counts any other once.       *)
LEMMA ScriptShape ==
  ASSUME TypeOK, ValidConfig(cfg), NEW v \in Voters, VoteScript(v)
  PROVE  \/ key[v] # 0 /\ key' = key /\ counter' = counter /\ times' = times
         \/ /\ key[v] = 0
            /\ key' = [key EXCEPT ![v] = now + TtlFor(v)]
            /\ counter' = [counter EXCEPT ![ShardOf[v]] =
                             [ballots |-> counter[ShardOf[v]].ballots + 1, until |-> now + TtlFor(v)]]
            /\ times' = [times EXCEPT ![v] = times[v] + 1]
BY DEF VoteScript, redisVars

LEMMA RedisTypes ==
  ASSUME TypeOK
  PROVE  /\ now \in Nat /\ cfg \in Configs /\ key \in [Voters -> Nat] /\ times \in [Voters -> Nat]
         /\ counter \in [Shards -> [ballots : Nat, until : Nat]]
         /\ ShardOf \in [Voters -> Shards] /\ NoHash \in [ballots : Nat, until : Nat]
BY ApplyingAssumption DEF TypeOK, NoHash

(* No step takes a vote back.                                                *)
LEMMA RedisStep ==
  ASSUME TypeOK, ValidConfig(cfg), KeyInv, [Next]_vars
  PROVE  /\ now' \in Nat /\ key' \in [Voters -> Nat] /\ times' \in [Voters -> Nat]
         /\ counter' \in [Shards -> [ballots : Nat, until : Nat]]
         /\ \A u \in Voters : times'[u] >= times[u]
         /\ KeyInv'
<1>0. /\ now \in Nat /\ cfg \in Configs /\ key \in [Voters -> Nat] /\ times \in [Voters -> Nat]
      /\ counter \in [Shards -> [ballots : Nat, until : Nat]]
      /\ ShardOf \in [Voters -> Shards] /\ NoHash \in [ballots : Nat, until : Nat]
  BY RedisTypes
<1>1. CASE Tick
  <2>1. /\ now' = now + 1 /\ times' = times
        /\ key' = [v \in Voters |-> IF key[v] > now + 1 THEN key[v] ELSE 0]
        /\ counter' = [s \in Shards |-> IF counter[s].until > now + 1 THEN counter[s] ELSE NoHash]
    BY <1>1 DEF Tick
  <2>2. key' \in [Voters -> Nat] /\ counter' \in [Shards -> [ballots : Nat, until : Nat]]
    BY <1>0, <2>1
  <2> QED
    BY <1>0, <2>1, <2>2 DEF KeyInv
<1>2. CASE UNCHANGED redisVars /\ now' = now
  BY <1>0, <1>2 DEF redisVars, KeyInv
<1>3. ASSUME NEW v \in Voters, VoteScript(v), now' = now
      PROVE  /\ now' \in Nat /\ key' \in [Voters -> Nat] /\ times' \in [Voters -> Nat]
             /\ counter' \in [Shards -> [ballots : Nat, until : Nat]]
             /\ \A u \in Voters : times'[u] >= times[u]
             /\ KeyInv'
  <2>1. CASE key' = key /\ counter' = counter /\ times' = times
    BY <1>0, <1>3, <2>1 DEF KeyInv
  <2>2. CASE /\ key' = [key EXCEPT ![v] = now + TtlFor(v)]
             /\ counter' = [counter EXCEPT ![ShardOf[v]] =
                              [ballots |-> counter[ShardOf[v]].ballots + 1, until |-> now + TtlFor(v)]]
             /\ times' = [times EXCEPT ![v] = times[v] + 1]
    <3>1. now + TtlFor(v) \in Nat
      BY <1>0, TtlOutlivesDrain
    <3>2. key' \in [Voters -> Nat] /\ times' \in [Voters -> Nat]
      BY <1>0, <2>2, <3>1
    <3>3. counter' \in [Shards -> [ballots : Nat, until : Nat]]
      BY <1>0, <2>2, <3>1
    <3>4. \A u \in Voters : times'[u] >= times[u]
      BY <1>0, <2>2
    <3>5. KeyInv'
      BY <1>0, <2>2 DEF KeyInv
    <3> QED
      BY <1>0, <1>3, <3>2, <3>3, <3>4, <3>5
  <2> QED
    BY <1>3, <2>1, <2>2, ScriptShape
<1> QED
  BY <1>1, <1>2, <1>3, RedisSteps DEF Scripted

(* A task that ends has its vote counted, or was told to end.                *)
LEMMA DoneStep ==
  ASSUME ApplyInv, [Next]_vars
  PROVE  BreakerDropsNothing'
<1>0. TypeOK /\ ValidConfig(cfg) /\ KeyInv /\ times \in [Voters -> Nat] /\ VoterOf \in [Deliveries -> Voters]
      /\ done \subseteq Deliveries /\ BreakerDropsNothing
  BY ApplyingAssumption DEF ApplyInv, TypeOK
<1>1. times' \in [Voters -> Nat] /\ \A u \in Voters : times'[u] >= times[u]
  BY <1>0, RedisStep
<1>2. CASE done' \subseteq done /\ refused' = refused /\ (ctxDone' = ctxDone \/ ctxDone')
  BY <1>0, <1>1, <1>2 DEF BreakerDropsNothing
<1>3. CASE Restart
  BY <1>3 DEF Restart, BreakerDropsNothing
<1>4. ASSUME NEW w \in Workers, GiveUp(w) \/ CallRefused(w)
      PROVE  BreakerDropsNothing'
  <2>1. /\ done' = done \cup {task[w].delivery} /\ ctxDone' = ctxDone /\ refused' = refused
        /\ task[w].delivery \in Invalid \/ ctxDone
    BY <1>4 DEF GiveUp, CallRefused, Return
  <2> QED
    BY <1>0, <1>1, <2>1 DEF BreakerDropsNothing
<1>5. ASSUME NEW w \in Workers, CallSucceeds(w)
      PROVE  BreakerDropsNothing'
  <2> DEFINE d == task[w].delivery
  <2>1. /\ done' = done \cup {d} /\ ctxDone' = ctxDone /\ refused' = refused
        /\ task[w].step = "call"
        /\ VoteScript(VoterOf[d])
    BY <1>5 DEF CallSucceeds, Return
  <2>2. VoterOf[d] \in Voters
    BY <1>0, <2>1, AtWork
  <2> HIDE DEF d
  <2>3. ASSUME NEW v \in Voters, VoteScript(v) PROVE times'[v] > 0
    <3>1. CASE key[v] # 0 /\ times' = times
      BY <1>0, <3>1 DEF KeyInv
    <3>2. CASE times' = [times EXCEPT ![v] = times[v] + 1]
      BY <1>0, <3>2
    <3> QED
      BY <1>0, <2>3, <3>1, <3>2, ScriptShape
  <2>4. times'[VoterOf[d]] > 0
    BY <2>1, <2>2, <2>3
  <2> QED
    BY <1>0, <1>1, <2>1, <2>4 DEF BreakerDropsNothing
<1>6. ASSUME NEW w \in Workers,
             \/ \E d \in Deliveries : Take(w, d)
             \/ Execute(w) \/ Rejected(w) \/ Retry(w) \/ CallFails(w) \/ CallLost(w)
      PROVE  done' = done /\ ctxDone' = ctxDone /\ refused' = refused
  BY <1>6 DEF Take, Execute, Rejected, Retry, CallFails, CallLost
<1>7. TimerRunsOut \/ RedisRecovers \/ RedisFails \/ Shutdown \/ Tick \/ UNCHANGED vars
        => done' = done /\ refused' = refused /\ (ctxDone' = ctxDone \/ ctxDone')
  BY DEF TimerRunsOut, RedisRecovers, RedisFails, Shutdown, Tick, vars
<1>8. ASSUME NEW w \in Workers, CallPermanent(w) PROVE BreakerDropsNothing'
  <2>1. /\ done' = done \cup {task[w].delivery} /\ ctxDone' = ctxDone
        /\ refused' = refused \cup {task[w].delivery}
    BY <1>8 DEF CallPermanent, Return
  <2> QED
    BY <1>0, <1>1, <2>1 DEF BreakerDropsNothing
<1> QED
  BY <1>2, <1>3, <1>4, <1>5, <1>6, <1>7, <1>8 DEF Next, Fault, WorkerStep

LEMMA RefusedStep ==
  ASSUME TypeOK, [Next]_vars
  PROVE  refused' \subseteq done'
<1>0. refused \subseteq done
  BY DEF TypeOK
<1> QED
  BY <1>0 DEF Next, Fault, WorkerStep, Return, Tick, TimerRunsOut, RedisRecovers, RedisFails, Shutdown,
              Restart, CallLost, Take, Execute, Rejected, Retry, GiveUp, CallSucceeds, CallFails,
              CallRefused, CallPermanent, vars

LEMMA InitApplyInv == Init => ApplyInv
<1> SUFFICES ASSUME Init PROVE ApplyInv
  OBVIOUS
<1>1. /\ cfg \in Configs /\ ValidConfig(cfg) /\ now = 0 /\ redisUp = TRUE /\ ctxDone = FALSE
      /\ done = {} /\ refused = {} /\ key = [v \in Voters |-> 0] /\ times = [v \in Voters |-> 0]
      /\ counter = [s \in Shards |-> NoHash] /\ task = [w \in Workers |-> NoTask]
  BY DEF Init
<1>2. BreakerOk(breaker)
  BY GenerationOk DEF Init
<1>3. breaker \in Breaker /\ breaker.failures <= breaker.requests
  BY DEF Init, Generation, Breaker
<1>4. TypeOK
  BY <1>1, <1>3 DEF TypeOK, Breaker, NoHash
<1>5. KeyInv /\ BreakerDropsNothing
  BY <1>1 DEF KeyInv, BreakerDropsNothing
<1> QED
  BY <1>1, <1>2, <1>4, <1>5 DEF ApplyInv

LEMMA NextApplyInv == ApplyInv /\ [Next]_vars => ApplyInv'
<1> SUFFICES ASSUME ApplyInv, [Next]_vars PROVE ApplyInv'
  OBVIOUS
<1>0. TypeOK /\ ValidConfig(cfg) /\ BreakerOk(breaker) /\ KeyInv /\ cfg \in Configs
  BY DEF ApplyInv, TypeOK
<1>1. cfg' = cfg
  BY <1>0, RedisSteps
<1>2. /\ now' \in Nat /\ key' \in [Voters -> Nat] /\ times' \in [Voters -> Nat]
      /\ counter' \in [Shards -> [ballots : Nat, until : Nat]] /\ KeyInv'
  BY <1>0, RedisStep
<1>3. /\ task' \in [Workers -> {NoTask} \cup Busy] /\ done' \subseteq Deliveries
      /\ refused' \subseteq done'
  BY <1>0, TaskStep, RefusedStep
<1>4. BreakerOk(breaker')
  BY <1>0, BreakerStep
<1>5. breaker' \in Breaker /\ breaker'.failures <= breaker'.requests
  <2>1. Cardinality(breaker'.current) \in Nat
    BY <1>4, FS_CardinalityType DEF BreakerOk
  <2> QED
    BY <1>4, <2>1 DEF BreakerOk, Breaker
<1>6. {redisUp, ctxDone}' \subseteq BOOLEAN
  <2>1. redisUp \in BOOLEAN /\ ctxDone \in BOOLEAN
    BY <1>0 DEF TypeOK
  <2>2. redisUp' \in {redisUp, TRUE, FALSE} /\ ctxDone' \in {ctxDone, TRUE, FALSE}
    BY DEF Next, Fault, WorkerStep, Tick, TimerRunsOut, RedisRecovers, RedisFails, Shutdown, Restart,
           CallLost, Take, Execute, Rejected, Retry, GiveUp, CallSucceeds, CallFails,
           CallRefused, CallPermanent, vars
  <2> QED
    BY <2>1, <2>2
<1>7. TypeOK'
  BY <1>0, <1>1, <1>2, <1>3, <1>5, <1>6 DEF TypeOK, Breaker, Busy, NoTask
<1>8. BreakerOk(breaker)'
  BY <1>4 DEF BreakerOk, Breaker
<1>9. ValidConfig(cfg)'
  BY <1>0, <1>1 DEF ValidConfig, ValidRetries, ValidDrain, ValidDedup, ValidSnapshots,
                    DedupInvariant, DrainBudget
<1> QED
  BY <1>2, <1>7, <1>8, <1>9, DoneStep DEF ApplyInv

LEMMA ApplyInvariant == Spec => []ApplyInv
BY InitApplyInv, NextApplyInv, PTL DEF Spec

(* Types of the breaker, the tasks and Redis; a generation of the breaker    *)
(* never has more failures than requests, whatever results come in late.     *)
THEOREM ApplyingTypeCorrect == Spec => []TypeOK
<1>1. ApplyInv => TypeOK
  BY DEF ApplyInv
<1> QED
  BY <1>1, ApplyInvariant, PTL

(* No outage, no transient error, no lost answer and no state of the breaker *)
(* lets a task end without its vote: only an invalid vote, an error that     *)
(* transient does not list and a shutdown do.                                *)
THEOREM BreakerDropsNothingHolds == Spec => []BreakerDropsNothing
<1>1. ApplyInv => BreakerDropsNothing
  BY DEF ApplyInv
<1> QED
  BY <1>1, ApplyInvariant, PTL

-----------------------------------------------------------------------------
(* Expiry.                                                                   *)
LEMMA HorizonInBudget ==
  ASSUME Window <= SafetyMargin, ApplyInv
  PROVE  /\ Horizon \in Nat /\ Horizon > 0 /\ now \in Nat
         /\ \A v \in Voters : TtlFor(v) \in Nat /\ TtlFor(v) >= 1 /\ now + TtlFor(v) >= Horizon
<1>1. ASSUME cfg.drainWindow \in Nat, cfg.finalGrace \in Nat, cfg.drainWindow > 0
      PROVE  Horizon \in Nat /\ Horizon > 0 /\ Horizon <= DrainBudget(cfg)
  BY <1>1, ApplyingAssumption DEF Horizon, DrainBudget
<1>2. cfg.drainWindow \in Nat /\ cfg.finalGrace \in Nat /\ cfg.drainWindow > 0 /\ now \in Nat
  <2>1. cfg \in Configuration /\ now \in Nat
    BY ApplyingAssumption DEF ApplyInv, TypeOK
  <2> QED
    BY <2>1 DEF ApplyInv, Configuration, ValidConfig, ValidDrain, ValidSnapshots
<1>3. ASSUME NEW v \in Voters
      PROVE  TtlFor(v) \in Nat /\ TtlFor(v) >= 1 /\ now + TtlFor(v) >= Horizon
  <2>1. TtlFor(v) \in Nat /\ TtlFor(v) >= 1 /\ TtlFor(v) >= DrainBudget(cfg) /\ DrainBudget(cfg) \in Nat
    BY TtlOutlivesDrain DEF ApplyInv, TypeOK
  <2> QED
    BY <1>1, <1>2, <2>1
<1> QED
  BY <1>1, <1>2, <1>3

LEMMA InitDrainInv == ASSUME Window <= SafetyMargin PROVE Init => DrainInv
<1> SUFFICES ASSUME Init PROVE DrainInv
  OBVIOUS
<1>1. Horizon \in Nat /\ Horizon > 0
  BY InitApplyInv, HorizonInBudget
<1>2. \A v \in Voters : OnceAt(v)
  BY DEF Init, OnceAt
<1>3. ASSUME NEW s \in Shards PROVE HashAt(s)
  <2>1. CountedIn(s) = {}
    BY DEF CountedIn, Init
  <2>2. Cardinality({}) = 0
    BY FS_EmptySet
  <2> QED
    BY <2>1, <2>2 DEF HashAt, Init, NoHash
<1> QED
  BY <1>1, <1>2, <1>3 DEF DrainInv, Init

LEMMA NextDrainInv ==
  ASSUME Window <= SafetyMargin, ApplyInv, DrainInv, [Next]_vars
  PROVE  DrainInv'
<1>0. /\ now \in Nat /\ cfg \in Configs /\ key \in [Voters -> Nat] /\ times \in [Voters -> Nat]
      /\ counter \in [Shards -> [ballots : Nat, until : Nat]]
      /\ ShardOf \in [Voters -> Shards] /\ TypeOK /\ ValidConfig(cfg)
  BY RedisTypes DEF ApplyInv
<1>1. Horizon' = Horizon /\ Horizon \in Nat
  BY <1>0, RedisSteps, HorizonInBudget DEF Horizon
<1>2. CASE Tick
  <2>1. /\ now' = now + 1 /\ now + 1 < Horizon /\ times' = times
        /\ key' = [v \in Voters |-> IF key[v] > now + 1 THEN key[v] ELSE 0]
        /\ counter' = [s \in Shards |-> IF counter[s].until > now + 1 THEN counter[s] ELSE NoHash]
    BY <1>2 DEF Tick
  <2>2. ASSUME NEW v \in Voters PROVE OnceAt(v)'
    <3>1. OnceAt(v)
      BY DEF DrainInv
    <3>2. key'[v] = IF key[v] > now + 1 THEN key[v] ELSE 0
      BY <2>1
    <3> QED
      BY <1>0, <1>1, <2>1, <3>1, <3>2 DEF OnceAt
  <2>3. ASSUME NEW s \in Shards PROVE HashAt(s)'
    <3>1. HashAt(s) /\ counter[s] \in [ballots : Nat, until : Nat]
      BY <1>0 DEF DrainInv
    <3>2. counter'[s] = IF counter[s].until > now + 1 THEN counter[s] ELSE NoHash
      BY <2>1
    <3>3. CountedIn(s)' = CountedIn(s)
      BY <2>1 DEF CountedIn
    <3>4. CASE counter[s].ballots > 0
      <4>1. counter'[s] = counter[s]
        BY <1>0, <1>1, <2>1, <3>1, <3>2, <3>4 DEF HashAt
      <4> QED
        BY <1>1, <3>1, <3>3, <4>1 DEF HashAt
    <3>5. CASE counter[s].ballots = 0
      <4>1. counter'[s].ballots = 0
        BY <3>2, <3>5 DEF NoHash
      <4> QED
        BY <3>1, <3>3, <3>5, <4>1 DEF HashAt
    <3> QED
      BY <3>1, <3>4, <3>5
  <2> QED
    BY <1>1, <2>1, <2>2, <2>3 DEF DrainInv
<1>3. CASE UNCHANGED redisVars /\ now' = now
  <2>1. key' = key /\ counter' = counter /\ times' = times /\ now' = now
    BY <1>3 DEF redisVars
  <2> QED
    BY <1>1, <2>1 DEF DrainInv, OnceAt, HashAt, CountedIn
<1>4. ASSUME NEW v \in Voters, VoteScript(v), now' = now
      PROVE  DrainInv'
  <2>1. CASE key' = key /\ counter' = counter /\ times' = times
    BY <1>1, <1>4, <2>1 DEF DrainInv, OnceAt, HashAt, CountedIn
  <2>2. CASE /\ key[v] = 0
             /\ key' = [key EXCEPT ![v] = now + TtlFor(v)]
             /\ counter' = [counter EXCEPT ![ShardOf[v]] =
                              [ballots |-> counter[ShardOf[v]].ballots + 1, until |-> now + TtlFor(v)]]
             /\ times' = [times EXCEPT ![v] = times[v] + 1]
    <3>0. now + TtlFor(v) \in Nat /\ now + TtlFor(v) >= Horizon
      BY <1>0, HorizonInBudget
    <3>1. times[v] = 0
      <4>1. OnceAt(v)
        BY DEF DrainInv
      <4>2. Horizon > 0
        BY HorizonInBudget
      <4> QED
        BY <1>1, <2>2, <4>1, <4>2 DEF OnceAt
    <3>2. ASSUME NEW u \in Voters PROVE OnceAt(u)'
      <4>1. OnceAt(u)
        BY DEF DrainInv
      <4> QED
        BY <1>0, <1>1, <2>2, <3>0, <3>1, <4>1 DEF OnceAt
    <3>3. ASSUME NEW s \in Shards PROVE HashAt(s)'
      <4>0. HashAt(s) /\ counter[s] \in [ballots : Nat, until : Nat]
        BY <1>0 DEF DrainInv
      <4>1. CASE s = ShardOf[v]
        <5>1. counter'[s] = [ballots |-> counter[s].ballots + 1, until |-> now + TtlFor(v)]
          BY <1>0, <2>2, <4>1
        <5>2. CountedIn(s)' = CountedIn(s) \cup {v} /\ v \notin CountedIn(s)
          BY <1>0, <2>2, <3>1, <4>1 DEF CountedIn
        <5>3. IsFiniteSet(CountedIn(s))
          <6>1. CountedIn(s) \subseteq Voters
            BY DEF CountedIn
          <6> QED
            BY <6>1, ApplyingAssumption, FS_Subset
        <5>4. Cardinality(CountedIn(s) \cup {v}) = Cardinality(CountedIn(s)) + 1
          BY <5>2, <5>3, FS_AddElement
        <5> QED
          BY <1>1, <3>0, <4>0, <5>1, <5>2, <5>4 DEF HashAt
      <4>2. CASE s # ShardOf[v]
        <5>1. counter'[s] = counter[s]
          BY <1>0, <2>2, <4>2
        <5>2. CountedIn(s)' = CountedIn(s)
          BY <1>0, <2>2, <4>2 DEF CountedIn
        <5> QED
          BY <1>1, <4>0, <5>1, <5>2 DEF HashAt
      <4> QED
        BY <4>1, <4>2
    <3> QED
      BY <1>1, <1>4, <3>2, <3>3 DEF DrainInv
  <2> QED
    BY <1>0, <1>4, <2>1, <2>2, ScriptShape
<1> QED
  BY <1>0, <1>2, <1>3, <1>4, RedisSteps DEF Scripted

LEMMA DrainInvariant ==
  ASSUME Window <= SafetyMargin
  PROVE  Spec => []DrainInv
<1>1. ApplyInv /\ DrainInv /\ [Next]_vars => DrainInv'
  BY NextDrainInv
<1>2. Init => DrainInv
  BY InitDrainInv
<1> QED
  BY <1>1, <1>2, ApplyInvariant, PTL DEF Spec

(* A voter is counted once, however often the vote is repeated, retried or   *)
(* delivered again, for every configuration that starts: validate compares   *)
(* the TTL less its jitter with the drain.  The poll's own window is not in  *)
(* that comparison; it has to fit into the safety margin (MCLongWindow).     *)
THEOREM CountedOnceHolds ==
  ASSUME Window <= SafetyMargin
  PROVE  Spec => []CountedOnce
<1>1. DrainInv => CountedOnce
  BY DEF DrainInv, OnceAt, CountedOnce
<1> QED
  BY <1>1, DrainInvariant, PTL

(* Under the same condition the counters of every shard are there, and       *)
(* complete, until the drain is over.                                        *)
THEOREM CountersOutliveDrainHolds ==
  ASSUME Window <= SafetyMargin
  PROVE  Spec => []CountersOutliveDrain
<1>1. DrainInv => CountersOutliveDrain
  BY DEF DrainInv, HashAt, CountedIn, CountersOutliveDrain
<1> QED
  BY <1>1, DrainInvariant, PTL

=============================================================================
