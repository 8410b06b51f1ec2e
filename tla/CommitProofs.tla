---------------------------- MODULE CommitProofs ----------------------------
(* No vote is lost between the topic and Redis: the proof that a committed   *)
(* offset never covers a vote that was not counted.                          *)
EXTENDS CountingProofs

(* What the proof asks of the environment; a run without each of the three   *)
(* shows that it is needed.                                                  *)
Reliable == RefreshInBudget /\ FetchErrorsAlone /\ TransientReplies

LEMMA LenType ==
  ASSUME TypeOK, NEW p \in Partitions
  PROVE  Len(log[p]) \in Nat /\ committed[p] \in Nat /\ head[p] \in Nat
  BY DEF TypeOK

-----------------------------------------------------------------------------
(* What never changes back: the topic only grows, a window moves once, off   *)
(* the announced end, and a dedup key stays, so a record that is settled     *)
(* stays settled.                                                            *)
LEMMA EnvironmentSteps ==
  ASSUME [Next]_vars
  PROVE  \/ UNCHANGED <<row, log>>
         \/ Environment
<1>1. ASSUME NEW c \in Consumers, NEW p \in Partitions, Reassign(p, c) \/ Rebalance(p, c)
      PROVE  UNCHANGED <<row, log>>
  BY <1>1 DEF Reassign, Rebalance, Assign
<1>2. ASSUME NEW c \in Consumers, NEW r \in Records,
             TaskStep(c, r) \/ ApplyLost(c, r) \/ ApplyFails(c, r)
      PROVE  UNCHANGED <<row, log>>
  BY <1>2 DEF TaskStep, StartTask, SkipTask, LookupHit, LookupTimeout,
              Apply, ApplyLost, ApplyFails, kafkaVars
<1>3. ASSUME NEW c \in Consumers,
             \/ Poll(c) \/ PollFailed(c) \/ BatchDone(c) \/ Commit(c) \/ CommitFails(c)
             \/ Exit(c) \/ Start(c) \/ Refresh(c) \/ Shutdown(c) \/ Crash(c)
      PROVE  UNCHANGED <<row, log>>
  BY <1>3 DEF Poll, PollFailed, BatchDone, Commit, CommitFails, Exit, Start, Refresh,
              Shutdown, Crash, Release, kafkaVars
<1> QED
  BY <1>1, <1>2, <1>3 DEF Next, Progress, Fault, vars, kafkaVars

LEMMA LogGrows ==
  ASSUME TypeInv, [Next]_vars, NEW p \in Partitions, NEW i \in 1 .. Len(log[p])
  PROVE  i \in 1 .. Len(log'[p]) /\ log'[p][i] = log[p][i]
<1> USE DEF TypeInv, TypeOK
<1>1. CASE log' = log
  BY <1>1
<1>2. ASSUME NEW x \in Partitions, NEW m \in Messages \cup {Malformed},
             log' = [log EXCEPT ![x] = Append(@, m)]
      PROVE  i \in 1 .. Len(log'[p]) /\ log'[p][i] = log[p][i]
  BY <1>2
<1>3. ASSUME NEW m \in Messages, Produce(m)
      PROVE  i \in 1 .. Len(log'[p]) /\ log'[p][i] = log[p][i]
  BY <1>2, <1>3, ConstantsAssumption DEF Produce
<1>4. ASSUME NEW x \in Partitions, ProduceMalformed(x)
      PROVE  i \in 1 .. Len(log'[p]) /\ log'[p][i] = log[p][i]
  BY <1>2, <1>4 DEF ProduceMalformed
<1> QED
  BY <1>1, <1>3, <1>4, EnvironmentSteps
  DEF Environment, CreatePoll, CloseNow, FinalizePoll, kafkaVars

LEMMA WindowMovesOnce ==
  ASSUME TypeInv, [Next]_vars, NEW q \in Polls
  PROVE  row'[q].closesAt = row[q].closesAt
           \/ (row[q].closesAt = ClosesAt[q] /\ row'[q].closesAt \in 1 .. LastClose[q])
<1>1. TypeOK
  BY DEF TypeInv
<1>2. ASSUME NEW x \in Polls, CreatePoll(x) \/ FinalizePoll(x)
      PROVE  row'[q].closesAt = row[q].closesAt
  <2>1. PICK st \in {"active", "closed"} :
          row' = [row EXCEPT ![x] = [status |-> st, closesAt |-> row[x].closesAt]]
    BY <1>1, <1>2 DEF TypeOK, CreatePoll, FinalizePoll
  <2> QED
    BY <1>1, <2>1 DEF TypeOK
<1>3. ASSUME NEW x \in Polls, CloseNow(x)
      PROVE  row'[q].closesAt = row[q].closesAt
               \/ (row[q].closesAt = ClosesAt[q] /\ row'[q].closesAt \in 1 .. LastClose[q])
  <2>1. PICK t \in 1 .. LastClose[x] :
          row' = [row EXCEPT ![x] = [status |-> "active", closesAt |-> t]]
    BY <1>3 DEF CloseNow
  <2>2. row[x].closesAt = ClosesAt[x]
    BY <1>3 DEF CloseNow
  <2> QED
    BY <1>1, <2>1, <2>2 DEF TypeOK
<1>4. CASE row' = row
  BY <1>4
<1> QED
  BY <1>2, <1>3, <1>4, EnvironmentSteps DEF Environment, Produce, ProduceMalformed

LEMMA DedupGrows ==
  ASSUME [Next]_vars
  PROVE  dedup \subseteq dedup'
  BY RedisSteps DEF VoteScript, redisVars

LEMMA SettledStays ==
  ASSUME TypeInv, [Next]_vars, NEW p \in Partitions, NEW i \in 1 .. Len(log[p]),
         Settled(log[p][i])
  PROVE  Settled(log[p][i])'
<1>1. log'[p][i] = log[p][i]
  BY LogGrows
<1>2. log[p][i] \in Messages \cup {Malformed}
  BY MsgType DEF TypeInv
<1>3. CASE log[p][i] = Malformed
  BY <1>1, <1>3 DEF Settled
<1>4. CASE log[p][i] \in Messages
  <2> DEFINE m == log[p][i]
  <2>1. m.poll \in Polls
    BY <1>4, ConstantsAssumption
  <2>2. CASE ~Contains(Announced(m.poll), m.at)
    <3>1. ~Contains(Announced(m.poll), m.at)'
      BY <1>1, <2>2 DEF Contains, Announced
    <3> QED
      BY <3>1 DEF Settled
  <2>3. RowWindow(m.poll)' = RowWindow(m.poll) \/ RowWindow(m.poll) = Announced(m.poll)
    BY <1>1, <2>1, WindowMovesOnce DEF RowWindow, Announced
  <2>4. CASE ~Contains(RowWindow(m.poll), m.at)
    <3>1. CASE RowWindow(m.poll) = Announced(m.poll)
      BY <2>2, <2>4, <3>1
    <3>2. CASE RowWindow(m.poll)' = RowWindow(m.poll)
      <4>1. ~Contains(RowWindow(m.poll), m.at)'
        BY <1>1, <2>4, <3>2 DEF Contains
      <4> QED
        BY <4>1 DEF Settled
    <3> QED
      BY <2>3, <3>1, <3>2
  <2>5. CASE m.voter = BadVoter \/ <<m.poll, m.voter>> \in dedup
    BY <1>1, <2>5, DedupGrows DEF Settled
  <2>6. m # Malformed
    BY <1>4, ConstantsAssumption
  <2> QED
    BY <2>2, <2>4, <2>5, <2>6 DEF Settled
<1> QED
  BY <1>2, <1>3, <1>4

-----------------------------------------------------------------------------
(* A cached window is the announced one until the window has moved, which    *)
(* happens once.                                                             *)
LEMMA InitCache == Init => CachedWindowKnown
  BY ConstantsAssumption DEF Init, CachedWindowKnown, LastClose

LEMMA SnapshotKnown ==
  ASSUME NEW q \in Polls
  PROVE  Snapshot[q] \in {NoConfig, RowWindow(q)}
  BY DEF Snapshot

LEMMA CacheSteps ==
  ASSUME TypeInv, [Next]_vars, NEW c \in Consumers
  PROVE  \/ cache'[c] = cache[c]
         \/ cache'[c] = [q \in Polls |-> NoConfig]
         \/ cache'[c] = Snapshot
<1> USE DEF TypeInv, TypeOK
<1>1. CASE UNCHANGED cache
  BY <1>1
<1>2. ASSUME NEW d \in Consumers, Exit(d) \/ Crash(d)
      PROVE  cache'[c] = cache[c] \/ cache'[c] = [q \in Polls |-> NoConfig]
  BY <1>2 DEF Exit, Crash, Release
<1>3. ASSUME NEW d \in Consumers, Start(d) \/ Refresh(d)
      PROVE  cache'[c] = cache[c] \/ cache'[c] = Snapshot
  BY <1>3 DEF Start, Refresh
<1>4. ASSUME NEW d \in Consumers, NEW r \in Records,
             TaskStep(d, r) \/ ApplyLost(d, r) \/ ApplyFails(d, r)
      PROVE  UNCHANGED cache
  BY <1>4 DEF TaskStep, StartTask, SkipTask, LookupHit, LookupTimeout,
              Apply, ApplyLost, ApplyFails
<1>5. ASSUME NEW d \in Consumers,
             \/ Poll(d) \/ PollFailed(d) \/ BatchDone(d) \/ Commit(d) \/ CommitFails(d)
             \/ Shutdown(d) \/ \E p \in Partitions : Reassign(p, d) \/ Rebalance(p, d)
      PROVE  UNCHANGED cache
  BY <1>5 DEF Poll, PollFailed, BatchDone, Commit, CommitFails, Shutdown,
              Reassign, Rebalance, Assign
<1>6. CASE Environment
  BY <1>6 DEF Environment, CreatePoll, CloseNow, FinalizePoll, Produce, ProduceMalformed
<1> QED
  BY <1>1, <1>2, <1>3, <1>4, <1>5, <1>6 DEF Next, Progress, Fault, vars

LEMMA NextCache ==
  ASSUME TypeInv, CachedWindowKnown, [Next]_vars
  PROVE  CachedWindowKnown'
<1> SUFFICES ASSUME NEW q \in Polls
             PROVE  /\ row'[q].closesAt <= LastClose[q]
                    /\ \A c \in Consumers :
                         cache'[c][q] \in {NoConfig, Announced(q), RowWindow(q)'}
  BY DEF CachedWindowKnown, Announced, NoConfig, LastClose
<1>1. row'[q].closesAt <= LastClose[q]
  <2>1. row[q].closesAt \in Nat /\ LastClose[q] \in Nat
    BY ConstantsAssumption DEF TypeInv, TypeOK, LastClose
  <2>2. row[q].closesAt <= LastClose[q]
    BY DEF CachedWindowKnown
  <2> QED
    BY <2>1, <2>2, WindowMovesOnce
<1>2. RowWindow(q) \in {Announced(q), RowWindow(q)'}
  BY WindowMovesOnce DEF RowWindow, Announced
<1>3. ASSUME NEW c \in Consumers
      PROVE  cache'[c][q] \in {NoConfig, Announced(q), RowWindow(q)'}
  <2>1. CASE cache'[c] = cache[c]
    BY <1>2, <2>1 DEF CachedWindowKnown
  <2>2. CASE cache'[c] = [x \in Polls |-> NoConfig]
    BY <2>2
  <2>3. CASE cache'[c] = Snapshot
    BY <1>2, <2>3, SnapshotKnown
  <2> QED
    BY <2>1, <2>2, <2>3, CacheSteps
<1> QED
  BY <1>1, <1>3

-----------------------------------------------------------------------------
(* A worker lets go of a record only when it is settled, or when the context *)
(* is done and nothing will be committed.                                    *)
LEMMA TaskLeaves ==
  ASSUME Reliable, TypeInv, CachedWindowKnown, RecordsOfPolls,
         NEW c \in Consumers, NEW r \in Records,
         TaskStep(c, r) \/ ApplyLost(c, r) \/ ApplyFails(c, r)
  PROVE  /\ UNCHANGED <<log, owner, head, committed, pc, ctxDone>>
         /\ \A d \in Consumers \ {c} : Tasks(d)' = Tasks(d)
         /\ Tasks(c) \ {r} \subseteq Tasks(c)'
         /\ r \in Tasks(c)' \/ Settled(Msg(r))' \/ ctxDone[c]
<1> USE DEF TypeInv, TypeOK
<1>1. r \in Tasks(c)
  BY DEF TaskStep, StartTask, SkipTask, LookupHit, LookupTimeout, Apply, ApplyLost,
         ApplyFails, Tasks
<1>2. r[1] \in Partitions /\ r[2] \in 1 .. Len(log[r[1]])
  BY <1>1 DEF TasksInBatch, Records
<1>3. UNCHANGED <<row, log, owner, head, committed, pc, ctxDone>>
  BY DEF TaskStep, StartTask, SkipTask, LookupHit, LookupTimeout, Apply, ApplyLost,
         ApplyFails, kafkaVars
<1>4. /\ \A d \in Consumers \ {c} : Tasks(d)' = Tasks(d)
      /\ Tasks(c) \ {r} \subseteq Tasks(c)'
  BY DEF TaskStep, StartTask, SkipTask, LookupHit, LookupTimeout, Apply, ApplyLost,
         ApplyFails, Leave, Tasks, taskVars
<1>5. Msg(r)' = Msg(r)
  BY <1>3 DEF Msg
<1>6. r \in Tasks(c)' \/ Settled(Msg(r))' \/ ctxDone[c]
  <2>1. CASE StartTask(c, r)
    BY <1>5, <2>1 DEF StartTask, Tasks, Settled
  <2>2. CASE SkipTask(c, r) \/ ApplyFails(c, r)
    BY <2>2 DEF SkipTask, ApplyFails, Reliable
  <2>3. CASE LookupHit(c, r)
    <3>1. CASE Contains(cache[c][Msg(r).poll], Msg(r).at) /\ Msg(r).voter # BadVoter
      BY <2>3, <3>1 DEF LookupHit, Tasks
    <3>2. CASE Msg(r).voter = BadVoter
      BY <1>5, <3>2 DEF Settled
    <3>3. CASE ~Contains(cache[c][Msg(r).poll], Msg(r).at)
      <4> DEFINE q == Msg(r).poll
                 w == cache[c][q]
      <4>1. Msg(r) \in Messages /\ w # NoConfig
        BY <2>3 DEF LookupHit, TasksInBatch
      <4>2. q \in Polls
        BY <4>1, ConstantsAssumption
      <4>3. w \in {Announced(q), RowWindow(q)}
        BY <4>1, <4>2 DEF CachedWindowKnown
      <4>4. Announced(q)' = Announced(q) /\ RowWindow(q)' = RowWindow(q)
        BY <1>3, <1>5 DEF Announced, RowWindow
      <4>5. ~Contains(Announced(q), Msg(r).at)' \/ ~Contains(RowWindow(q), Msg(r).at)'
        BY <1>5, <3>3, <4>3, <4>4 DEF Contains
      <4> QED
        BY <4>5 DEF Settled
    <3> QED
      BY <3>1, <3>2, <3>3
  <2>4. CASE LookupTimeout(c, r)
    <3>1. CASE ctxDone[c]
      BY <3>1
    <3>2. CASE row[Msg(r).poll].status # "active"
      <4>1. Msg(r) \in Messages /\ Msg(r) # Malformed
        BY <2>4, ConstantsAssumption DEF LookupTimeout, TasksInBatch
      <4>2. row[Msg(r).poll].status \in {"absent", "active", "closed"}
        BY <4>1, ConstantsAssumption
      <4>3. Settled(Msg(r))
        BY <1>2, <3>2, <4>1, <4>2 DEF RecordsOfPolls, Msg
      <4>4. UNCHANGED dedup
        BY <2>4 DEF LookupTimeout, redisVars
      <4> QED
        BY <1>3, <1>5, <4>3, <4>4 DEF Settled, Announced, RowWindow, Contains
    <3> QED
      BY <2>4, <3>1, <3>2 DEF LookupTimeout, Reliable
  <2>5. CASE Apply(c, r)
    <3>1. <<Msg(r).poll, Msg(r).voter>> \in dedup'
      BY <2>5 DEF Apply, VoteScript, redisVars
    <3> QED
      BY <1>5, <3>1 DEF Settled
  <2>6. CASE ApplyLost(c, r)
    BY <2>6 DEF ApplyLost, Tasks, taskVars
  <2> QED
    BY <2>1, <2>2, <2>3, <2>4, <2>5, <2>6 DEF TaskStep
<1> QED
  BY <1>3, <1>4, <1>6

-----------------------------------------------------------------------------
(* The three parts of the invariant that speak of settled records.           *)
SafeInv ==
  /\ CachedWindowKnown
  /\ RecordsOfPolls
  /\ CommittedIsSettled
  /\ PolledIsCovered

LEMMA InitSafe == Init => SafeInv
<1> SUFFICES ASSUME Init PROVE SafeInv
  OBVIOUS
<1>1. \A p \in Partitions : committed[p] = 0 /\ Len(log[p]) = 0 /\ owner[p] = NoOwner
  BY DEF Init
<1> QED
  BY <1>1, InitCache DEF SafeInv, RecordsOfPolls, CommittedIsSettled, PolledIsCovered

(* A poll is finalized only when everything on the topic is committed.       *)
LEMMA NextRecords ==
  ASSUME TypeInv, RecordsOfPolls, CommittedIsSettled, [Next]_vars
  PROVE  RecordsOfPolls'
<1> SUFFICES ASSUME NEW p \in Partitions, NEW i \in 1 .. Len(log'[p]),
                    log'[p][i] # Malformed
             PROVE  /\ row'[log'[p][i].poll].status # "absent"
                    /\ row'[log'[p][i].poll].status = "closed" => Settled(log[p][i])'
  BY DEF RecordsOfPolls
<1> USE DEF TypeInv, TypeOK
<1>0. TypeOK'
  BY NextType
<1>1. log'[p][i] \in Messages /\ log'[p][i].poll \in Polls
  BY <1>0, ConstantsAssumption
<1>2. CASE i \in 1 .. Len(log[p])
  <2>1. log'[p][i] = log[p][i]
    BY <1>2, LogGrows
  <2>2. /\ row[log[p][i].poll].status # "absent"
        /\ row[log[p][i].poll].status = "closed" => Settled(log[p][i])
    BY <1>2, <2>1 DEF RecordsOfPolls
  <2>3. Settled(log[p][i]) => Settled(log[p][i])'
    BY <1>2, SettledStays
  <2>4. CASE row' = row
    BY <2>1, <2>2, <2>3, <2>4
  <2>5. ASSUME NEW q \in Polls, CreatePoll(q) \/ CloseNow(q)
        PROVE  /\ row'[log'[p][i].poll].status # "absent"
               /\ row'[log'[p][i].poll].status = "closed" => Settled(log[p][i])'
    <3>1. PICK t : row' = [row EXCEPT ![q] = [status |-> "active", closesAt |-> t]]
      BY <2>5 DEF CreatePoll, CloseNow
    <3>2. CASE log[p][i].poll = q
      BY <1>1, <2>1, <3>1, <3>2
    <3>3. CASE log[p][i].poll # q
      BY <1>1, <2>1, <2>2, <2>3, <3>1, <3>3
    <3> QED
      BY <3>2, <3>3
  <2>6. ASSUME NEW q \in Polls, FinalizePoll(q)
        PROVE  /\ row'[log'[p][i].poll].status # "absent"
               /\ row'[log'[p][i].poll].status = "closed" => Settled(log[p][i])'
    <3>1. Settled(log[p][i])
      BY <1>2, <2>6 DEF FinalizePoll, Drained, CommittedIsSettled
    <3> QED
      BY <1>1, <2>1, <2>2, <2>3, <2>6, <3>1 DEF FinalizePoll
  <2> QED
    BY <2>4, <2>5, <2>6, EnvironmentSteps DEF Environment, Produce, ProduceMalformed
<1>3. CASE i \notin 1 .. Len(log[p])
  <2>1. ASSUME NEW m \in Messages, Produce(m)
        PROVE  row'[log'[p][i].poll].status = "active"
    <3>1. PartitionOf[m.voter] \in Partitions
      BY ConstantsAssumption
    <3>2. log'[p][i] = m
      BY <1>3, <2>1, <3>1 DEF Produce
    <3> QED
      BY <2>1, <3>2 DEF Produce
  <2>2. ASSUME NEW x \in Partitions, ProduceMalformed(x)
        PROVE  FALSE
    <3>1. log' = [log EXCEPT ![x] = Append(@, Malformed)]
      BY <2>2 DEF ProduceMalformed
    <3>2. log[x] \in Seq(Messages \cup {Malformed})
      OBVIOUS
    <3>3. CASE x = p
      BY <1>3, <3>1, <3>2, <3>3
    <3>4. CASE x # p
      BY <1>3, <3>1, <3>4
    <3> QED
      BY <3>3, <3>4
  <2>3. log' # log
    BY <1>3
  <2> QED
    BY <2>1, <2>2, <2>3, EnvironmentSteps
    DEF Environment, CreatePoll, CloseNow, FinalizePoll, kafkaVars
<1> QED
  BY <1>2, <1>3

(* Committed offsets only move in Commit.                                    *)
LEMMA CommitSteps ==
  ASSUME TypeInv, [Next]_vars
  PROVE  UNCHANGED committed \/ \E c \in Consumers : Commit(c)
<1>1. CASE Environment \/ UNCHANGED vars
  BY <1>1 DEF Environment, CreatePoll, CloseNow, FinalizePoll, Produce, ProduceMalformed,
              vars, kafkaVars
<1>2. ASSUME NEW c \in Consumers, NEW r \in Records,
             TaskStep(c, r) \/ ApplyLost(c, r) \/ ApplyFails(c, r)
      PROVE  UNCHANGED committed
  BY <1>2 DEF TaskStep, StartTask, SkipTask, LookupHit, LookupTimeout,
              Apply, ApplyLost, ApplyFails, kafkaVars
<1>3. ASSUME NEW c \in Consumers,
             \/ Poll(c) \/ PollFailed(c) \/ BatchDone(c) \/ CommitFails(c) \/ Exit(c)
             \/ Start(c) \/ Refresh(c) \/ Shutdown(c) \/ Crash(c)
             \/ \E p \in Partitions : Reassign(p, c) \/ Rebalance(p, c)
      PROVE  UNCHANGED committed
  BY <1>3 DEF Poll, PollFailed, BatchDone, CommitFails, Exit, Start, Refresh,
              Shutdown, Crash, Release, Reassign, Rebalance, Assign, kafkaVars
<1> QED
  BY <1>1, <1>2, <1>3 DEF Next, Progress, Fault

LEMMA NextCommitted ==
  ASSUME TypeInv, CommittedIsSettled, PolledIsCovered, [Next]_vars
  PROVE  CommittedIsSettled'
<1> SUFFICES ASSUME NEW p \in Partitions, NEW i \in 1 .. committed'[p]
             PROVE  Settled(log[p][i])'
  BY DEF CommittedIsSettled
<1> USE DEF TypeInv, TypeOK, OffsetsOrdered
<1>1. CASE i \in 1 .. committed[p]
  <2>1. i \in 1 .. Len(log[p]) /\ Settled(log[p][i])
    BY <1>1, LenType DEF CommittedIsSettled
  <2> QED
    BY <2>1, SettledStays
<1>2. CASE i \notin 1 .. committed[p]
  <2>1. PICK c \in Consumers : Commit(c)
    BY <1>2, CommitSteps
  <2>2. owner[p] = c /\ committed'[p] = head[p]
    BY <1>2, <2>1 DEF Commit
  <2>3. c # NoOwner /\ Tasks(c) = {} /\ ~ctxDone[c]
    BY <2>1, ConstantsAssumption DEF Commit, TasksInBatch
  <2>4. Settled(log[p][i])
    BY <2>2, <2>3 DEF PolledIsCovered
  <2>5. i \in 1 .. Len(log[p])
    BY <2>2, LenType
  <2> QED
    BY <2>4, <2>5, SettledStays
<1> QED
  BY <1>1, <1>2

(* The heart of the argument, one step per action: a poll adds to the batch  *)
(* exactly what it adds to what a commit would cover, a reassignment starts  *)
(* over from what is committed, and a worker only lets go of the settled.    *)
LEMMA NextCovered ==
  ASSUME Reliable, TypeInv, SafeInv, [Next]_vars
  PROVE  PolledIsCovered'
<1> USE DEF TypeInv, TypeOK, OffsetsOrdered, SafeInv
<1> SUFFICES ASSUME NEW p \in Partitions, owner'[p] # NoOwner
             PROVE  /\ pc'[owner'[p]] # "stopped"
                    /\ \/ ctxDone'[owner'[p]]
                       \/ \A i \in 1 .. head'[p] :
                            Settled(log[p][i])' \/ <<p, i>> \in Tasks(owner[p])'
  BY DEF PolledIsCovered
<1> DEFINE o == owner[p]
<1>0. \A i \in 1 .. head[p] : Settled(log[p][i]) => Settled(log[p][i])'
  BY LenType, SettledStays
<1>1. ASSUME o # NoOwner, owner'[p] = o, head'[p] = head[p], pc'[o] # "stopped",
             ctxDone[o] => ctxDone'[o], Tasks(o)' = Tasks(o)
      PROVE  /\ pc'[owner'[p]] # "stopped"
             /\ \/ ctxDone'[owner'[p]]
                \/ \A i \in 1 .. head'[p] :
                     Settled(log[p][i])' \/ <<p, i>> \in Tasks(owner[p])'
  BY <1>0, <1>1 DEF PolledIsCovered, Tasks
<1>2. o # NoOwner => o \in Consumers /\ pc[o] # "stopped"
  BY DEF PolledIsCovered
<1>3. CASE Environment \/ UNCHANGED vars
  <2>1. UNCHANGED <<owner, head, pc, ctxDone, queued, looking, applying>>
    BY <1>3 DEF Environment, CreatePoll, CloseNow, FinalizePoll, Produce,
                ProduceMalformed, vars, kafkaVars, taskVars
  <2> QED
    BY <1>1, <1>2, <2>1 DEF Tasks
<1>4. ASSUME NEW x \in Partitions, NEW c \in Consumers, Assign(x, c)
      PROVE  /\ pc'[owner'[p]] # "stopped"
             /\ \/ ctxDone'[owner'[p]]
                \/ \A i \in 1 .. head'[p] :
                     Settled(log[p][i])' \/ <<p, i>> \in Tasks(owner[p])'
  <2>1. CASE x = p
    <3>1. owner'[p] = c /\ head'[p] = committed[p] /\ pc'[c] # "stopped"
      BY <1>4, <2>1 DEF Assign
    <3>2. \A i \in 1 .. committed[p] : i \in 1 .. head[p] /\ Settled(log[p][i])
      BY LenType DEF CommittedIsSettled
    <3> QED
      BY <1>0, <3>1, <3>2
  <2>2. CASE x # p
    BY <1>1, <1>2, <1>4, <2>2 DEF Assign, Tasks, taskVars
  <2> QED
    BY <2>1, <2>2
<1>5. ASSUME NEW c \in Consumers, Poll(c)
      PROVE  /\ pc'[owner'[p]] # "stopped"
             /\ \/ ctxDone'[owner'[p]]
                \/ \A i \in 1 .. head'[p] :
                     Settled(log[p][i])' \/ <<p, i>> \in Tasks(owner[p])'
  <2>1. CASE o = c
    <3>1. Tasks(c) = {} /\ ~ctxDone[c] /\ c # NoOwner
      BY <1>5, ConstantsAssumption DEF Poll, TasksInBatch
    <3>2. \A i \in 1 .. head[p] : Settled(log[p][i])
      BY <2>1, <3>1 DEF PolledIsCovered
    <3>3. PICK h \in Polled(c) :
            /\ head' = h
            /\ queued' = [queued EXCEPT ![c] =
                            { r \in Records : head[r[1]] < r[2] /\ r[2] <= h[r[1]] }]
      BY <1>5 DEF Poll
    <3>4. h[p] \in 0 .. MaxLog /\ MaxLog \in Nat
      BY <3>3, ConstantsAssumption DEF Polled
    <3>5. \A i \in 1 .. h[p] : i \in 1 .. head[p] \/ <<p, i>> \in queued'[c]
      BY <3>3, <3>4, LenType DEF Records
    <3>6. owner' = owner /\ pc'[c] = "handle" /\ queued'[c] \subseteq Tasks(c)'
      BY <1>5 DEF Poll, Tasks
    <3> QED
      BY <1>0, <2>1, <3>2, <3>3, <3>5, <3>6
  <2>2. CASE o # c
    <3>1. head'[p] = head[p]
      BY <1>5, <2>2 DEF Poll, Polled
    <3> QED
      BY <1>1, <1>2, <1>5, <2>2, <3>1 DEF Poll, Tasks
  <2> QED
    BY <2>1, <2>2
<1>6. ASSUME NEW c \in Consumers,
             \/ BatchDone(c) \/ Commit(c) \/ CommitFails(c) \/ Start(c) \/ Refresh(c)
             \/ Shutdown(c)
      PROVE  /\ pc'[owner'[p]] # "stopped"
             /\ \/ ctxDone'[owner'[p]]
                \/ \A i \in 1 .. head'[p] :
                     Settled(log[p][i])' \/ <<p, i>> \in Tasks(owner[p])'
  <2>1. UNCHANGED <<owner, head, queued, looking, applying>>
    BY <1>6 DEF BatchDone, Commit, CommitFails, Start, Refresh, Shutdown, kafkaVars, taskVars
  <2>2. \A d \in Consumers : pc[d] # "stopped" => pc'[d] # "stopped"
    BY <1>6 DEF BatchDone, Commit, CommitFails, Start, Refresh, Shutdown
  <2>3. \A d \in Consumers : ctxDone[d] => ctxDone'[d]
    BY <1>6 DEF BatchDone, Commit, CommitFails, Start, Refresh, Shutdown
  <2> QED
    BY <1>1, <1>2, <2>1, <2>2, <2>3 DEF Tasks
<1>7. ASSUME NEW c \in Consumers, Exit(c) \/ Crash(c)
      PROVE  /\ pc'[owner'[p]] # "stopped"
             /\ \/ ctxDone'[owner'[p]]
                \/ \A i \in 1 .. head'[p] :
                     Settled(log[p][i])' \/ <<p, i>> \in Tasks(owner[p])'
  <2>1. o # c /\ owner'[p] = o /\ head'[p] = head[p]
    BY <1>7 DEF Exit, Crash, Release
  <2>2. pc'[o] = pc[o] /\ ctxDone'[o] = ctxDone[o] /\ Tasks(o)' = Tasks(o)
    BY <1>2, <1>7, <2>1 DEF Exit, Crash, Release, Tasks, taskVars
  <2> QED
    BY <1>1, <1>2, <2>1, <2>2
<1>8. ASSUME NEW c \in Consumers, NEW r \in Records,
             TaskStep(c, r) \/ ApplyLost(c, r) \/ ApplyFails(c, r)
      PROVE  /\ pc'[owner'[p]] # "stopped"
             /\ \/ ctxDone'[owner'[p]]
                \/ \A i \in 1 .. head'[p] :
                     Settled(log[p][i])' \/ <<p, i>> \in Tasks(owner[p])'
  <2>1. /\ UNCHANGED <<log, owner, head, committed, pc, ctxDone>>
        /\ \A d \in Consumers \ {c} : Tasks(d)' = Tasks(d)
        /\ Tasks(c) \ {r} \subseteq Tasks(c)'
        /\ r \in Tasks(c)' \/ Settled(Msg(r))' \/ ctxDone[c]
    BY <1>8, TaskLeaves
  <2>2. CASE o = c
    <3>1. ASSUME NEW i \in 1 .. head[p], ~ctxDone[c]
          PROVE  Settled(log[p][i])' \/ <<p, i>> \in Tasks(c)'
      <4>1. CASE Settled(log[p][i])
        BY <1>0, <4>1
      <4>2. CASE <<p, i>> \in Tasks(c)
        <5>1. CASE r = <<p, i>>
          BY <2>1, <3>1, <5>1 DEF Msg
        <5>2. CASE r # <<p, i>>
          BY <2>1, <4>2, <5>2
        <5> QED
          BY <5>1, <5>2
      <4> QED
        BY <1>8, <2>1, <2>2, <3>1, <4>1, <4>2 DEF PolledIsCovered
    <3> QED
      BY <1>2, <2>1, <2>2, <3>1
  <2>3. CASE o # c
    <3>1. o \in Consumers \ {c} /\ Tasks(o)' = Tasks(o)
      BY <1>2, <2>1, <2>3
    <3> QED
      BY <1>1, <1>2, <2>1, <2>3, <3>1
  <2> QED
    BY <2>2, <2>3
<1>9. ASSUME NEW c \in Consumers, PollFailed(c)
      PROVE  /\ pc'[owner'[p]] # "stopped"
             /\ \/ ctxDone'[owner'[p]]
                \/ \A i \in 1 .. head'[p] :
                     Settled(log[p][i])' \/ <<p, i>> \in Tasks(owner[p])'
  <2>1. UNCHANGED <<owner, head, pc, ctxDone, queued, looking, applying>>
    BY <1>9 DEF PollFailed, Reliable, taskVars
  <2> QED
    BY <1>1, <1>2, <2>1 DEF Tasks
<1> QED
  BY <1>3, <1>4, <1>5, <1>6, <1>7, <1>8, <1>9
  DEF Next, Progress, Fault, Reassign, Rebalance

(* No vote is lost: if a refresh fits in the lookup budget, an error never   *)
(* travels with records and Redis only fails transiently, then no offset is  *)
(* committed over a vote that should have been counted and was not, however  *)
(* often consumers crash, shut down, lose partitions or fail to commit.      *)
THEOREM NoVoteLost == Reliable => (Spec => []CommittedIsSettled)
<1> SUFFICES ASSUME Reliable PROVE Spec => []CommittedIsSettled
  OBVIOUS
<1>1. Spec => []TypeInv
  BY InitType, NextType, PTL DEF Spec
<1>2. TypeInv /\ SafeInv /\ [Next]_vars => SafeInv'
  <2> SUFFICES ASSUME TypeInv, SafeInv, [Next]_vars PROVE SafeInv'
    OBVIOUS
  <2>1. CachedWindowKnown'
    BY NextCache DEF SafeInv
  <2>2. RecordsOfPolls'
    BY NextRecords DEF SafeInv
  <2>3. CommittedIsSettled'
    BY NextCommitted DEF SafeInv
  <2>4. PolledIsCovered'
    BY NextCovered
  <2> QED
    BY <2>1, <2>2, <2>3, <2>4 DEF SafeInv
<1>3. Spec => []SafeInv
  BY <1>1, <1>2, InitSafe, PTL DEF Spec
<1>4. SafeInv => CommittedIsSettled
  BY DEF SafeInv
<1> QED
  BY <1>3, <1>4, PTL

=============================================================================
