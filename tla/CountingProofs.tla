--------------------------- MODULE CountingProofs ---------------------------
(* Theorems about Counting, for every group of consumers, every topic and    *)
(* every number of worker slots.                                             *)
EXTENDS Counting, FiniteSetTheorems, TLAPS

-----------------------------------------------------------------------------
(* Types.  TypeOK is inductive together with the order of the offsets and    *)
(* what a worker can hold: VoteScript is only safe to run on a vote whose    *)
(* voter id was parsed.                                                      *)
TypeInv == TypeOK /\ OffsetsOrdered /\ TasksInBatch

LEMMA InitType == Init => TypeInv
  BY ConstantsAssumption, SMTT(30)
  DEF Init, TypeInv, TypeOK, OffsetsOrdered, TasksInBatch, Tasks, Window, NoConfig, Records

(* A record on the topic is a vote or malformed.                             *)
LEMMA MsgType ==
  ASSUME TypeOK, NEW p \in Partitions, NEW i \in 1 .. Len(log[p])
  PROVE  log[p][i] \in Messages \cup {Malformed}
  BY DEF TypeOK

LEMMA SnapshotType ==
  ASSUME TypeOK
  PROVE  Snapshot \in [Polls -> Window]
  BY ConstantsAssumption DEF TypeOK, Snapshot, RowWindow, Window, NoConfig

LEMMA VoteScriptType ==
  ASSUME TypeOK, NEW m \in Messages, m.voter \in Voters, VoteScript(m)
  PROVE  /\ dedup' \subseteq Polls \X Voters
         /\ counter' \in [Polls -> [Shards -> [votes : [Options -> Nat], ballots : Nat]]]
         /\ ballot' \in [Polls \X Voters -> SUBSET Options]
<1> DEFINE k == <<m.poll, m.voter>>
           s == ShardOf[k]
<1>1. /\ m.poll \in Polls
      /\ m.choices \in SUBSET Options
      /\ k \in Polls \X Voters
      /\ s \in Shards
  BY ConstantsAssumption
<1>2. CASE k \in dedup
  BY <1>2 DEF VoteScript, TypeOK, redisVars
<1>3. CASE k \notin dedup
  <2> DEFINE old == counter[m.poll][s]
             new == [votes |-> [o \in Options |->
                        IF o \in m.choices THEN old.votes[o] + 1 ELSE old.votes[o]],
                     ballots |-> old.ballots + 1]
  <2>1. old \in [votes : [Options -> Nat], ballots : Nat]
    BY <1>1 DEF TypeOK
  <2>2. new \in [votes : [Options -> Nat], ballots : Nat]
    BY <2>1
  <2>3. counter' = [counter EXCEPT ![m.poll][s] = new]
    BY <1>3 DEF VoteScript
  <2> HIDE DEF new
  <2>4. counter' \in [Polls -> [Shards -> [votes : [Options -> Nat], ballots : Nat]]]
    BY <1>1, <2>2, <2>3 DEF TypeOK
  <2>5. ballot' = [ballot EXCEPT ![k] = m.choices] /\ dedup' = dedup \cup {k}
    BY <1>3 DEF VoteScript
  <2> HIDE DEF k
  <2>6. ballot' \in [Polls \X Voters -> SUBSET Options]
    BY <1>1, <2>5 DEF TypeOK
  <2> QED
    BY <1>1, <2>4, <2>5, <2>6 DEF TypeOK
<1> QED
  BY <1>2, <1>3


LEMMA EnvironmentType == TypeInv /\ Environment => TypeInv'
<1> SUFFICES ASSUME TypeInv, Environment PROVE TypeInv'
  OBVIOUS
<1> USE ConstantsAssumption
<1>1. ASSUME NEW q \in Polls, CreatePoll(q) \/ CloseNow(q) \/ FinalizePoll(q)
      PROVE  TypeInv'
  <2>1. row' \in [Polls -> [status : {"absent", "active", "closed"}, closesAt : Nat \ {0}]]
    <3>1. row[q].status \in {"absent", "active", "closed"} /\ row[q].closesAt \in Nat \ {0}
      BY DEF TypeInv, TypeOK
    <3>2. PICK st \in {"absent", "active", "closed"}, t \in Nat \ {0} :
            row' = [row EXCEPT ![q] = [status |-> st, closesAt |-> t]]
      BY <1>1, <3>1 DEF CreatePoll, CloseNow, FinalizePoll
    <3> QED
      BY <3>2 DEF TypeInv, TypeOK
  <2>2. UNCHANGED <<kafkaVars, pc, ctxDone, taskVars, cache, redisVars>>
    BY <1>1 DEF CreatePoll, CloseNow, FinalizePoll
  <2> QED
    BY <2>1, <2>2 DEF TypeInv, TypeOK, OffsetsOrdered, TasksInBatch, Tasks, Msg,
                      kafkaVars, taskVars, redisVars
<1>2. ASSUME NEW p \in Partitions, NEW m \in Messages \cup {Malformed},
             Len(log[p]) < MaxLog, log' = [log EXCEPT ![p] = Append(@, m)],
             UNCHANGED <<row, committed, owner, head, pc, ctxDone, taskVars, cache, redisVars>>
      PROVE  TypeInv'
  <2> DEFINE Record == Messages \cup {Malformed}
  <2>0. log \in [Partitions -> Seq(Record)]
    BY DEF TypeInv, TypeOK
  <2>1. TypeOK'
    <3> HIDE DEF Record
    <3>1. Append(log[p], m) \in Seq(Record)
      BY <1>2, <2>0 DEF Record
    <3>2. log' \in [Partitions -> Seq(Record)]
      BY <1>2, <2>0, <3>1
    <3> QED
      BY <1>2, <3>2 DEF TypeInv, TypeOK, taskVars, redisVars, Record
  <2>2. \A x \in Partitions : /\ Len(log[x]) <= Len(log'[x])
                             /\ Len(log'[x]) <= MaxLog
                             /\ \A i \in 1 .. Len(log[x]) : log'[x][i] = log[x][i]
    <3> HIDE DEF Record
    <3> QED
      BY <1>2, <2>0, ConstantsAssumption DEF TypeInv, OffsetsOrdered
  <2>3. OffsetsOrdered'
    BY <1>2, <2>1, <2>2 DEF TypeInv, TypeOK, OffsetsOrdered
  <2>4. ASSUME NEW c \in Consumers, NEW r \in Tasks(c)
        PROVE  r[2] <= Len(log'[r[1]]) /\ Msg(r)' = Msg(r)
    <3>1. r \in Records /\ r[2] <= Len(log[r[1]])
      BY <2>4 DEF TypeInv, TypeOK, TasksInBatch, Tasks
    <3>2. r[1] \in Partitions /\ r[2] \in 1 .. Len(log[r[1]])
      BY <3>1 DEF TypeInv, TypeOK, Records
    <3>3. /\ log \in [Partitions -> Seq(Messages \cup {Malformed})]
          /\ log' \in [Partitions -> Seq(Messages \cup {Malformed})]
      BY <2>1 DEF TypeInv, TypeOK
    <3>4. Len(log[r[1]]) \in Nat /\ Len(log'[r[1]]) \in Nat
      BY <3>2, <3>3
    <3> QED
      BY <2>2, <3>2, <3>4 DEF Msg
  <2>5. TasksInBatch'
    BY <1>2, <2>4 DEF TypeInv, TasksInBatch, Tasks, taskVars
  <2> QED
    BY <2>1, <2>3, <2>5 DEF TypeInv
<1> QED
  BY <1>1, <1>2 DEF Environment, Produce, ProduceMalformed

LEMMA AssignType ==
  ASSUME TypeInv, NEW p \in Partitions, NEW c \in Consumers, Assign(p, c)
  PROVE  TypeInv'
  BY DEF TypeInv, TypeOK, OffsetsOrdered, TasksInBatch, Tasks, Msg, Assign, taskVars, redisVars

(* The steps of Run, and of the process around it.                           *)
LEMMA RunType ==
  ASSUME TypeInv, NEW c \in Consumers,
         \/ Poll(c) \/ PollFailed(c) \/ BatchDone(c) \/ Commit(c) \/ CommitFails(c)
         \/ Exit(c) \/ Start(c) \/ Refresh(c) \/ Shutdown(c) \/ Crash(c)
  PROVE  TypeInv'
<1> USE DEF TypeInv, TypeOK, OffsetsOrdered, TasksInBatch, Tasks, Msg
<1>1. CASE Poll(c)
  <2>1. PICK h \in Polled(c) :
          /\ head' = h
          /\ queued' = [queued EXCEPT ![c] =
                          { r \in Records : head[r[1]] < r[2] /\ r[2] <= h[r[1]] }]
    BY <1>1 DEF Poll
  <2>2. /\ h \in [Partitions -> 0 .. MaxLog]
        /\ \A p \in Partitions : head[p] <= h[p] /\ h[p] <= Len(log[p])
    BY <2>1 DEF Polled
  <2>3. \A r \in queued'[c] : r \in Records /\ r[2] <= Len(log[r[1]])
    BY <2>1, <2>2 DEF Records
  <2>4. TypeOK' /\ OffsetsOrdered'
    <3>1. head' \in [Partitions -> Nat]
      BY <2>1, <2>2, ConstantsAssumption
    <3>2. queued' \in [Consumers -> SUBSET Records]
      BY <2>1
    <3> QED
      BY <1>1, <2>1, <2>2, <3>1, <3>2 DEF Poll, redisVars
  <2>5. TasksInBatch'
    BY <1>1, <2>1, <2>3 DEF Poll
  <2> QED
    BY <2>4, <2>5
<1>2. CASE PollFailed(c)
  <2>1. \/ head' = head
        \/ head' \in Polled(c)
    BY <1>2 DEF PollFailed
  <2>2. head' \in [Partitions -> Nat]
    BY <2>1, ConstantsAssumption DEF Polled
  <2>3. \A p \in Partitions : head[p] <= head'[p] /\ head'[p] <= Len(log[p])
    BY <2>1 DEF Polled
  <2> QED
    BY <1>2, <2>2, <2>3 DEF PollFailed, taskVars, redisVars
<1>3. CASE BatchDone(c)
  BY <1>3 DEF BatchDone, kafkaVars, taskVars, redisVars
<1>4. CASE Commit(c)
  BY <1>4 DEF Commit, kafkaVars, taskVars, redisVars
<1>5. CASE CommitFails(c)
  BY <1>5 DEF CommitFails, kafkaVars, taskVars, redisVars
<1>6. CASE Exit(c)
  <2>1. cache' \in [Consumers -> [Polls -> Window]]
    BY <1>6 DEF Exit, Release, NoConfig, Window
  <2> QED
    BY <1>6, <2>1 DEF Exit, Release, taskVars, redisVars
<1>7. CASE Start(c)
  BY <1>7, SnapshotType DEF Start, kafkaVars, taskVars, redisVars
<1>8. CASE Refresh(c)
  BY <1>8, SnapshotType DEF Refresh, kafkaVars, taskVars, redisVars
<1>9. CASE Shutdown(c)
  BY <1>9 DEF Shutdown, kafkaVars, taskVars, redisVars
<1>10. CASE Crash(c)
  <2>1. cache' \in [Consumers -> [Polls -> Window]]
    BY <1>10 DEF Crash, Release, NoConfig, Window
  <2> QED
    BY <1>10, <2>1 DEF Crash, Release, redisVars
<1> QED
  BY <1>1, <1>2, <1>3, <1>4, <1>5, <1>6, <1>7, <1>8, <1>9, <1>10

(* A task only moves along queued, looking, applying, and ends anywhere.     *)
LEMMA TaskType ==
  ASSUME TypeInv, NEW c \in Consumers, NEW r \in Records,
         TaskStep(c, r) \/ ApplyLost(c, r) \/ ApplyFails(c, r)
  PROVE  TypeInv'
<1> USE DEF TypeInv, TypeOK, OffsetsOrdered, TasksInBatch, Tasks, Msg
<1>1. CASE StartTask(c, r)
  <2>1. r[2] \in 1 .. Len(log[r[1]]) /\ r[1] \in Partitions
    BY <1>1 DEF StartTask, Records
  <2>2. Msg(r) \in Messages \cup {Malformed}
    BY <2>1, MsgType
  <2>3. CASE Msg(r) = Malformed
    <3>1. Leave(c, r) /\ UNCHANGED <<row, kafkaVars, pc, ctxDone, cache, redisVars>>
      BY <1>1, <2>3 DEF StartTask
    <3> QED
      BY <3>1 DEF Leave, kafkaVars, redisVars
  <2>4. CASE Msg(r) # Malformed
    <3>1. /\ queued' = [queued EXCEPT ![c] = @ \ {r}]
          /\ looking' = [looking EXCEPT ![c] = @ \cup {r}]
          /\ UNCHANGED <<row, kafkaVars, pc, ctxDone, applying, cache, redisVars>>
      BY <1>1, <2>4 DEF StartTask
    <3>2. TypeOK' /\ OffsetsOrdered'
      BY <3>1 DEF kafkaVars, redisVars
    <3>3. TasksInBatch'
      BY <1>1, <2>2, <2>4, <3>1 DEF StartTask, kafkaVars
    <3> QED
      BY <3>2, <3>3
  <2> QED
    BY <2>3, <2>4
<1>2. CASE SkipTask(c, r)
  BY <1>2 DEF SkipTask, Leave, kafkaVars, redisVars
<1>3. CASE LookupHit(c, r)
  <2>1. Msg(r) \in Messages
    BY <1>3 DEF LookupHit
  <2>2. Msg(r).voter # BadVoter => Msg(r).voter \in Voters
    BY <2>1, ConstantsAssumption
  <2>3. CASE Contains(cache[c][Msg(r).poll], Msg(r).at) /\ Msg(r).voter # BadVoter
    <3>1. /\ looking' = [looking EXCEPT ![c] = @ \ {r}]
          /\ applying' = [applying EXCEPT ![c] = @ \cup {r}]
          /\ UNCHANGED <<row, kafkaVars, pc, ctxDone, queued, cache, redisVars>>
      BY <1>3, <2>3 DEF LookupHit
    <3>2. TypeOK' /\ OffsetsOrdered'
      BY <3>1 DEF kafkaVars, redisVars
    <3>3. TasksInBatch'
      BY <1>3, <2>1, <2>2, <2>3, <3>1 DEF LookupHit, kafkaVars
    <3> QED
      BY <3>2, <3>3
  <2>4. CASE ~(Contains(cache[c][Msg(r).poll], Msg(r).at) /\ Msg(r).voter # BadVoter)
    <3>1. Leave(c, r) /\ UNCHANGED <<row, kafkaVars, pc, ctxDone, cache, redisVars>>
      BY <1>3, <2>4 DEF LookupHit
    <3> QED
      BY <3>1 DEF Leave, kafkaVars, redisVars
  <2> QED
    BY <2>3, <2>4
<1>4. CASE LookupTimeout(c, r)
  BY <1>4 DEF LookupTimeout, Leave, kafkaVars, redisVars
<1>5. CASE Apply(c, r)
  <2>1. Msg(r) \in Messages /\ Msg(r).voter \in Voters /\ VoteScript(Msg(r))
    BY <1>5 DEF Apply
  <2>2. /\ dedup' \subseteq Polls \X Voters
        /\ counter' \in [Polls -> [Shards -> [votes : [Options -> Nat], ballots : Nat]]]
        /\ ballot' \in [Polls \X Voters -> SUBSET Options]
    BY <2>1, VoteScriptType
  <2> QED
    BY <1>5, <2>2 DEF Apply, Leave, kafkaVars
<1>6. CASE ApplyLost(c, r)
  <2>1. Msg(r) \in Messages /\ Msg(r).voter \in Voters /\ VoteScript(Msg(r))
    BY <1>6 DEF ApplyLost
  <2>2. /\ dedup' \subseteq Polls \X Voters
        /\ counter' \in [Polls -> [Shards -> [votes : [Options -> Nat], ballots : Nat]]]
        /\ ballot' \in [Polls \X Voters -> SUBSET Options]
    BY <2>1, VoteScriptType
  <2> QED
    BY <1>6, <2>2 DEF ApplyLost, kafkaVars, taskVars
<1>7. CASE ApplyFails(c, r)
  BY <1>7 DEF ApplyFails, Leave, kafkaVars, redisVars
<1> QED
  BY <1>1, <1>2, <1>3, <1>4, <1>5, <1>6, <1>7 DEF TaskStep

LEMMA NextType == TypeInv /\ [Next]_vars => TypeInv'
<1> SUFFICES ASSUME TypeInv, [Next]_vars PROVE TypeInv'
  OBVIOUS
<1>1. CASE UNCHANGED vars
  BY <1>1 DEF TypeInv, TypeOK, OffsetsOrdered, TasksInBatch, Tasks, Msg,
              vars, kafkaVars, taskVars, redisVars
<1>2. CASE Environment
  BY <1>2, EnvironmentType
<1>3. ASSUME NEW c \in Consumers, NEW p \in Partitions, Reassign(p, c) \/ Rebalance(p, c)
      PROVE  TypeInv'
  BY <1>3, AssignType DEF Reassign, Rebalance
<1>4. ASSUME NEW c \in Consumers, Progress(c) \/ Fault(c) \/ Start(c) \/ Refresh(c)
      PROVE  TypeInv'
  BY <1>3, <1>4, RunType, TaskType DEF Progress, Fault
<1> QED
  BY <1>1, <1>2, <1>3, <1>4 DEF Next

(* Counting keeps its types in every behaviour, whatever the environment     *)
(* does: in particular vote.lua is only ever run for a voter id that parsed. *)
THEOREM TypeCorrect == Spec => []TypeOK
<1>1. Spec => []TypeInv
  BY InitType, NextType, PTL DEF Spec
<1>2. TypeInv => TypeOK
  BY DEF TypeInv
<1> QED
  BY <1>1, <1>2, PTL

-----------------------------------------------------------------------------
(* The tally.                                                                *)

(* Only the script, run for a vote in the hands of a worker, writes Redis.   *)
LEMMA RedisSteps ==
  ASSUME [Next]_vars
  PROVE  \/ UNCHANGED redisVars
         \/ \E c \in Consumers, r \in Records : r \in applying[c] /\ VoteScript(Msg(r))
<1>1. CASE UNCHANGED vars
  BY <1>1 DEF vars
<1>2. CASE Environment
  BY <1>2 DEF Environment, CreatePoll, CloseNow, FinalizePoll, Produce, ProduceMalformed
<1>3. ASSUME NEW c \in Consumers, NEW p \in Partitions, Reassign(p, c) \/ Rebalance(p, c)
      PROVE  UNCHANGED redisVars
  BY <1>3 DEF Reassign, Rebalance, Assign
<1>4. ASSUME NEW c \in Consumers, NEW r \in Records,
             TaskStep(c, r) \/ ApplyLost(c, r) \/ ApplyFails(c, r)
      PROVE  UNCHANGED redisVars \/ (r \in applying[c] /\ VoteScript(Msg(r)))
  BY <1>4 DEF TaskStep, StartTask, SkipTask, LookupHit, LookupTimeout,
              Apply, ApplyLost, ApplyFails
<1>5. ASSUME NEW c \in Consumers,
             \/ Poll(c) \/ PollFailed(c) \/ BatchDone(c) \/ Commit(c) \/ CommitFails(c)
             \/ Exit(c) \/ Start(c) \/ Refresh(c) \/ Shutdown(c) \/ Crash(c)
      PROVE  UNCHANGED redisVars
  BY <1>5 DEF Poll, PollFailed, BatchDone, Commit, CommitFails, Exit, Start, Refresh,
              Shutdown, Crash, Release
<1> QED
  BY <1>1, <1>2, <1>3, <1>4, <1>5 DEF Next, Progress, Fault

TallyInv == DedupMatchesBallots /\ TallyExact

LEMMA InitTally == Init => TallyInv
<1> SUFFICES ASSUME Init PROVE TallyInv
  OBVIOUS
<1>1. \A q \in Polls, s \in Shards, O \in SUBSET Options : CountedVoters(q, s, O) = {}
  BY DEF Init, CountedVoters
<1>2. TallyExact
  BY <1>1, FS_EmptySet DEF Init, TallyExact
<1>3. dedup = {} /\ \A k \in Polls \X Voters : ballot[k] = {}
  BY DEF Init
<1> QED
  BY <1>2, <1>3 DEF TallyInv, DedupMatchesBallots

(* One run of the script keeps the counters exact, whoever repeats it.       *)
LEMMA VoteScriptTally ==
  ASSUME TypeOK, TallyInv, NEW m \in Messages, m.voter \in Voters, VoteScript(m)
  PROVE  TallyInv'
<1> DEFINE k == <<m.poll, m.voter>>
<1>1. /\ m.poll \in Polls
      /\ m.choices \in SUBSET Options
      /\ m.choices # {}
      /\ k \in Polls \X Voters
      /\ ShardOf[k] \in Shards
  BY ConstantsAssumption
<1>2. CASE k \in dedup
  BY <1>2 DEF VoteScript, redisVars, TallyInv, DedupMatchesBallots, TallyExact, CountedVoters
<1>3. CASE k \notin dedup
  <2>1. ballot[k] = {}
    BY <1>1, <1>3 DEF TallyInv, DedupMatchesBallots
  <2>2. /\ dedup' = dedup \cup {k}
        /\ ballot' = [ballot EXCEPT ![k] = m.choices]
    BY <1>3 DEF VoteScript
  <2>3. DedupMatchesBallots'
    BY <1>1, <2>2 DEF TallyInv, DedupMatchesBallots, TypeOK
  <2>4. ASSUME NEW q \in Polls, NEW s \in Shards, NEW O \in SUBSET Options
        PROVE  Cardinality(CountedVoters(q, s, O)') =
                 IF q = m.poll /\ s = ShardOf[k] /\ m.choices \cap O # {}
                   THEN Cardinality(CountedVoters(q, s, O)) + 1
                   ELSE Cardinality(CountedVoters(q, s, O))
    <3>1. IsFiniteSet(CountedVoters(q, s, O))
      BY FiniteVoters, FS_Subset DEF CountedVoters
    <3>2. CASE q = m.poll /\ s = ShardOf[k] /\ m.choices \cap O # {}
      <4>1. CountedVoters(q, s, O)' = CountedVoters(q, s, O) \cup {m.voter}
        BY <1>1, <2>1, <2>2, <3>2 DEF CountedVoters, TypeOK
      <4>2. m.voter \notin CountedVoters(q, s, O)
        BY <2>1, <3>2 DEF CountedVoters
      <4> QED
        BY <3>1, <3>2, <4>1, <4>2, FS_AddElement
    <3>3. CASE ~(q = m.poll /\ s = ShardOf[k] /\ m.choices \cap O # {})
      <4>1. CountedVoters(q, s, O)' = CountedVoters(q, s, O)
        BY <1>1, <2>1, <2>2, <3>3 DEF CountedVoters, TypeOK
      <4> QED
        BY <3>3, <4>1
    <3> QED
      BY <3>2, <3>3
  <2>5. ASSUME NEW q \in Polls, NEW s \in Shards
        PROVE  /\ counter'[q][s].ballots =
                    IF q = m.poll /\ s = ShardOf[k] THEN counter[q][s].ballots + 1
                                                   ELSE counter[q][s].ballots
               /\ \A o \in Options : counter'[q][s].votes[o] =
                    IF q = m.poll /\ s = ShardOf[k] /\ o \in m.choices
                      THEN counter[q][s].votes[o] + 1
                      ELSE counter[q][s].votes[o]
    <3> DEFINE old == counter[m.poll][ShardOf[k]]
               new == [votes |-> [o \in Options |->
                          IF o \in m.choices THEN old.votes[o] + 1 ELSE old.votes[o]],
                       ballots |-> old.ballots + 1]
    <3>1. counter' = [counter EXCEPT ![m.poll][ShardOf[k]] = new]
      BY <1>3 DEF VoteScript
    <3>2. /\ new.ballots = old.ballots + 1
          /\ \A o \in Options : new.votes[o] =
                IF o \in m.choices THEN old.votes[o] + 1 ELSE old.votes[o]
      OBVIOUS
    <3> HIDE DEF new, k
    <3>3. counter'[q][s] = IF q = m.poll /\ s = ShardOf[k] THEN new ELSE counter[q][s]
      BY <1>1, <3>1 DEF TypeOK
    <3> QED
      BY <3>2, <3>3
  <2>6. TallyExact'
    <3> SUFFICES ASSUME NEW q \in Polls, NEW s \in Shards
                 PROVE  /\ counter'[q][s].ballots = Cardinality(CountedVoters(q, s, Options)')
                        /\ \A o \in Options :
                             counter'[q][s].votes[o] = Cardinality(CountedVoters(q, s, {o})')
      BY DEF TallyExact
    <3>1. counter'[q][s].ballots = Cardinality(CountedVoters(q, s, Options)')
      <4>1. m.choices \cap Options # {}
        BY <1>1
      <4>2. counter[q][s].ballots = Cardinality(CountedVoters(q, s, Options))
        BY DEF TallyInv, TallyExact
      <4> QED
        BY <2>4, <2>5, <4>1, <4>2
    <3>2. ASSUME NEW o \in Options
          PROVE  counter'[q][s].votes[o] = Cardinality(CountedVoters(q, s, {o})')
      <4>1. m.choices \cap {o} # {} <=> o \in m.choices
        OBVIOUS
      <4>2. counter[q][s].votes[o] = Cardinality(CountedVoters(q, s, {o}))
        BY DEF TallyInv, TallyExact
      <4>3. {o} \in SUBSET Options
        OBVIOUS
      <4> QED
        BY <2>4, <2>5, <4>1, <4>2, <4>3
    <3> QED
      BY <3>1, <3>2
  <2> QED
    BY <2>3, <2>6 DEF TallyInv
<1> QED
  BY <1>2, <1>3

LEMMA NextTally == TypeInv /\ TallyInv /\ [Next]_vars => TallyInv'
<1> SUFFICES ASSUME TypeInv, TallyInv, [Next]_vars PROVE TallyInv'
  OBVIOUS
<1>1. CASE UNCHANGED redisVars
  BY <1>1 DEF redisVars, TallyInv, DedupMatchesBallots, TallyExact, CountedVoters
<1>2. ASSUME NEW c \in Consumers, NEW r \in Records, r \in applying[c], VoteScript(Msg(r))
      PROVE  TallyInv'
  <2>1. Msg(r) \in Messages /\ Msg(r).voter \in Voters /\ TypeOK
    BY <1>2 DEF TypeInv, TasksInBatch
  <2> QED
    BY <1>2, <2>1, VoteScriptTally
<1> QED
  BY <1>1, <1>2, RedisSteps

(* The counters are exact in every behaviour: neither a retry after a lost   *)
(* answer nor a redelivery after a crash or a rebalance inflates the result, *)
(* for any number of consumers, workers, voters and shards.                  *)
THEOREM TallyIsExact == Spec => []TallyExact
<1>1. Spec => []TypeInv
  BY InitType, NextType, PTL DEF Spec
<1>2. Spec => []TallyInv
  BY <1>1, InitTally, NextTally, PTL DEF Spec
<1>3. TallyInv => TallyExact
  BY DEF TallyInv
<1> QED
  BY <1>2, <1>3, PTL

(* The first counted ballot of a voter is final.                             *)
THEOREM FirstBallotIsFinal == Spec => FirstBallotStands
<1>1. ASSUME TypeInv, TallyInv, [Next]_vars, NEW k \in Polls \X Voters, ballot[k] # {}
      PROVE  ballot'[k] = ballot[k]
  <2>1. CASE UNCHANGED redisVars
    BY <2>1 DEF redisVars
  <2>2. ASSUME NEW c \in Consumers, NEW r \in Records, r \in applying[c], VoteScript(Msg(r))
        PROVE  ballot'[k] = ballot[k]
    <3>1. k \in dedup
      BY <1>1 DEF TallyInv, DedupMatchesBallots
    <3>2. CASE k = <<Msg(r).poll, Msg(r).voter>>
      BY <2>2, <3>1, <3>2 DEF VoteScript, redisVars
    <3>3. CASE k # <<Msg(r).poll, Msg(r).voter>>
      BY <1>1, <2>2, <3>3 DEF VoteScript, redisVars, TypeInv, TypeOK
    <3> QED
      BY <3>2, <3>3
  <2> QED
    BY <1>1, <2>1, <2>2, RedisSteps
<1>2. TypeInv /\ TallyInv /\ [Next]_vars
        => [\A k \in Polls \X Voters : ballot[k] # {} => ballot'[k] = ballot[k]]_vars
  BY <1>1
<1>3. Spec => []TypeInv
  BY InitType, NextType, PTL DEF Spec
<1>4. Spec => []TallyInv
  BY <1>3, InitTally, NextTally, PTL DEF Spec
<1> QED
  BY <1>2, <1>3, <1>4, PTL DEF Spec, FirstBallotStands

=============================================================================
