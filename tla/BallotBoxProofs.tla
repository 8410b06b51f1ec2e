--------------------------- MODULE BallotBoxProofs ---------------------------
(* Counting implements BallotBox.                                            *)
EXTENDS CommitProofs

(* The topic is the box of cast votes: it grows by the vote produced.        *)
LEMMA AppendCasts ==
  ASSUME TypeInv, NEW p \in Partitions, NEW m \in Messages \cup {Malformed},
         log' = [log EXCEPT ![p] = Append(@, m)]
  PROVE  CastVotes' = CastVotes \cup ({m} \cap Messages)
<1>1. log[p] \in Seq(Messages \cup {Malformed})
  BY DEF TypeInv, TypeOK
<1>2. /\ log'[p] = Append(log[p], m)
      /\ \A x \in Partitions \ {p} : log'[x] = log[x]
  BY DEF TypeInv, TypeOK
<1>3. /\ Len(log'[p]) = Len(log[p]) + 1
      /\ Len(log[p]) \in Nat
      /\ log'[p][Len(log[p]) + 1] = m
      /\ \A i \in 1 .. Len(log[p]) : log'[p][i] = log[p][i]
  BY <1>1, <1>2
<1>4. ASSUME NEW v \in Messages
      PROVE  (\E x \in Partitions : \E i \in 1 .. Len(log'[x]) : log'[x][i] = v)
               <=> (v = m \/ \E x \in Partitions : \E i \in 1 .. Len(log[x]) : log[x][i] = v)
  <2>1. ASSUME NEW x \in Partitions, NEW i \in 1 .. Len(log'[x]), log'[x][i] = v
        PROVE  v = m \/ \E y \in Partitions : \E j \in 1 .. Len(log[y]) : log[y][j] = v
    <3>1. CASE x = p /\ i = Len(log[p]) + 1
      BY <1>3, <2>1, <3>1
    <3>2. CASE x = p /\ i # Len(log[p]) + 1
      <4>1. i \in 1 .. Len(log[p])
        BY <1>3, <2>1, <3>2
      <4> QED
        BY <1>3, <2>1, <3>2, <4>1
    <3>3. CASE x # p
      BY <1>2, <2>1, <3>3
    <3> QED
      BY <3>1, <3>2, <3>3
  <2>2. ASSUME NEW x \in Partitions, NEW i \in 1 .. Len(log[x]), log[x][i] = v
        PROVE  \E y \in Partitions : \E j \in 1 .. Len(log'[y]) : log'[y][j] = v
    <3>1. CASE x = p
      <4>1. i \in 1 .. Len(log'[p]) /\ log'[p][i] = v
        BY <1>3, <2>2, <3>1
      <4> QED
        BY <4>1
    <3>2. CASE x # p
      BY <1>2, <2>2, <3>2
    <3> QED
      BY <3>1, <3>2
  <2>3. v = m => \E y \in Partitions : \E j \in 1 .. Len(log'[y]) : log'[y][j] = v
    <3>1. Len(log[p]) + 1 \in 1 .. Len(log'[p])
      BY <1>3
    <3> QED
      BY <1>3, <3>1
  <2> QED
    BY <2>1, <2>2, <2>3
<1> QED
  BY <1>4 DEF CastVotes

-----------------------------------------------------------------------------
(* A vote is in the hands of applyWithRetry only if it was cast in time.     *)
LEMMA NextApplying ==
  ASSUME TypeInv, CachedWindowKnown, ApplyingInWindow, [Next]_vars
  PROVE  ApplyingInWindow'
<1> USE DEF TypeInv, TypeOK
<1>1. ASSUME NEW c \in Consumers, NEW r \in applying'[c], r \notin applying[c]
      PROVE  /\ r \in looking[c]
             /\ cache[c][Msg(r).poll] # NoConfig
             /\ Contains(cache[c][Msg(r).poll], Msg(r).at)
  <2>1. CASE Environment \/ UNCHANGED vars
    BY <1>1, <2>1 DEF Environment, CreatePoll, CloseNow, FinalizePoll, Produce,
                      ProduceMalformed, vars, taskVars
  <2>2. ASSUME NEW d \in Consumers, NEW t \in Records,
               TaskStep(d, t) \/ ApplyLost(d, t) \/ ApplyFails(d, t)
        PROVE  /\ d = c /\ t = r /\ LookupHit(c, r)
               /\ Contains(cache[c][Msg(r).poll], Msg(r).at)
    <3>0. ~(UNCHANGED applying) /\ ~Leave(d, t)
      <4>1. ASSUME Leave(d, t) PROVE applying'[c] \subseteq applying[c]
        BY <4>1 DEF Leave
      <4> QED
        BY <1>1, <4>1
    <3>1. ~(StartTask(d, t) \/ SkipTask(d, t) \/ LookupTimeout(d, t))
      BY <3>0 DEF StartTask, SkipTask, LookupTimeout
    <3>2. ~(Apply(d, t) \/ ApplyLost(d, t) \/ ApplyFails(d, t))
      BY <3>0 DEF Apply, ApplyLost, ApplyFails, taskVars
    <3>3. LookupHit(d, t)
      BY <2>2, <3>1, <3>2 DEF TaskStep
    <3>4. Contains(cache[d][Msg(t).poll], Msg(t).at)
      BY <3>0, <3>3 DEF LookupHit
    <3>5. d = c /\ t = r
      <4>1. applying' = [applying EXCEPT ![d] = @ \cup {t}]
        BY <3>0, <3>3 DEF LookupHit
      <4> QED
        BY <1>1, <4>1
    <3> QED
      BY <3>3, <3>4, <3>5
  <2>3. ASSUME NEW d \in Consumers,
               \/ Poll(d) \/ PollFailed(d) \/ BatchDone(d) \/ Commit(d) \/ CommitFails(d)
               \/ Exit(d) \/ Start(d) \/ Refresh(d) \/ Shutdown(d) \/ Crash(d)
               \/ \E p \in Partitions : Reassign(p, d) \/ Rebalance(p, d)
        PROVE  FALSE
    BY <1>1, <2>3 DEF Poll, PollFailed, BatchDone, Commit, CommitFails, Exit, Start, Refresh,
                      Shutdown, Crash, Release, Reassign, Rebalance, Assign, taskVars
  <2> QED
    BY <1>1, <2>1, <2>2, <2>3 DEF Next, Progress, Fault, LookupHit
<1> SUFFICES ASSUME NEW c \in Consumers, NEW r \in applying'[c]
             PROVE  Contains([opensAt |-> OpensAt[Msg(r).poll],
                              closesAt |-> LastClose[Msg(r).poll]], Msg(r).at)'
  BY DEF ApplyingInWindow
<1>2. r \in looking[c] \cup applying[c]
  BY <1>1
<1>3. r[1] \in Partitions /\ r[2] \in 1 .. Len(log[r[1]]) /\ Msg(r) \in Messages
  BY <1>2 DEF TasksInBatch, Tasks, Records
<1>4. Msg(r)' = Msg(r)
  BY <1>3, LogGrows DEF Msg
<1>5. Contains([opensAt |-> OpensAt[Msg(r).poll],
                closesAt |-> LastClose[Msg(r).poll]], Msg(r).at)
  <2>1. CASE r \in applying[c]
    BY <2>1 DEF ApplyingInWindow
  <2>2. CASE r \notin applying[c]
    <3> DEFINE q == Msg(r).poll
    <3>1. q \in Polls /\ Msg(r).at \in Nat
      BY <1>3, ConstantsAssumption
    <3>2. Contains(cache[c][q], Msg(r).at) /\ cache[c][q] # NoConfig
      BY <1>1, <2>2
    <3>3. OpensAt[q] \in Nat /\ ClosesAt[q] \in Nat \ {0} /\ row[q].closesAt \in Nat \ {0}
      BY <3>1, ConstantsAssumption
    <3>4. /\ cache[c][q].opensAt = OpensAt[q]
          /\ cache[c][q].closesAt \in Nat
          /\ cache[c][q].closesAt <= LastClose[q]
          /\ LastClose[q] \in Nat \ {0}
      <4>1. /\ cache[c][q] \in {Announced(q), RowWindow(q)}
            /\ row[q].closesAt <= LastClose[q]
        BY <3>1, <3>2 DEF CachedWindowKnown
      <4>2. LastClose[q] \in Nat \ {0} /\ ClosesAt[q] <= LastClose[q]
        BY <3>1, <3>3, ConstantsAssumption DEF LastClose
      <4> HIDE DEF TypeInv, TypeOK, q
      <4> QED
        BY <3>3, <4>1, <4>2 DEF Announced, RowWindow
    <3>5. OpensAt[q] <= Msg(r).at /\ Msg(r).at < cache[c][q].closesAt
      BY <3>2, <3>4 DEF Contains
    <3>6. Msg(r).at < LastClose[q]
      BY <3>1, <3>4, <3>5
    <3> HIDE DEF q
    <3>7. Contains([opensAt |-> OpensAt[q], closesAt |-> LastClose[q]], Msg(r).at)
      BY <3>4, <3>5, <3>6 DEF Contains
    <3> QED
      BY <3>7 DEF q
  <2> QED
    BY <2>1, <2>2
<1> QED
  BY <1>4, <1>5 DEF Contains

-----------------------------------------------------------------------------
LEMMA InitBox == Init => Box!Init
<1> SUFFICES ASSUME Init PROVE Box!Init
  OBVIOUS
<1>1. CastVotes = {}
  BY DEF Init, CastVotes
<1> QED
  BY <1>1 DEF Init, Box!Init

LEMMA StepBox ==
  ASSUME TypeInv, TallyInv, ApplyingInWindow, [Next]_vars
  PROVE  [Box!Next]_(Box!vars)
<1>1. ASSUME NEW c \in Consumers, NEW r \in Records, r \in applying[c], VoteScript(Msg(r)),
             UNCHANGED log
      PROVE  [Box!Next]_(Box!vars)
  <2> DEFINE m == Msg(r)
             k == <<m.poll, m.voter>>
  <2>0. CastVotes' = CastVotes
    BY <1>1 DEF CastVotes
  <2>1. CASE k \in dedup
    BY <1>1, <2>0, <2>1 DEF VoteScript, redisVars, Box!vars
  <2>2. CASE k \notin dedup
    <3>1. m \in Messages /\ m.voter \in Voters /\ m # Malformed
      BY <1>1, ConstantsAssumption DEF TypeInv, TasksInBatch
    <3>2. r[1] \in Partitions /\ r[2] \in 1 .. Len(log[r[1]])
      BY <1>1 DEF TypeInv, TypeOK, TasksInBatch, Tasks, Records
    <3>3. m \in CastVotes
      BY <3>1, <3>2 DEF Msg, CastVotes
    <3>4. k \in Polls \X Voters /\ ballot[k] = {}
      BY <2>2, <3>1, ConstantsAssumption DEF TallyInv, DedupMatchesBallots
    <3>5. ballot' = [ballot EXCEPT ![k] = m.choices]
      BY <1>1, <2>2 DEF VoteScript
    <3>6. Contains([opensAt |-> OpensAt[m.poll], closesAt |-> LastClose[m.poll]], m.at)
      BY <1>1 DEF ApplyingInWindow
    <3>7. Box!Record(m)
      BY <2>0, <3>3, <3>4, <3>5, <3>6 DEF Box!Record, Box!Contains, Contains
    <3> QED
      BY <3>1, <3>7 DEF Box!Next
  <2> QED
    BY <2>1, <2>2
<1>2. ASSUME NEW m \in Messages, Produce(m)
      PROVE  [Box!Next]_(Box!vars)
  <2>1. PartitionOf[m.voter] \in Partitions /\ m # Malformed
    BY ConstantsAssumption
  <2>2. CastVotes' = CastVotes \cup {m} /\ UNCHANGED ballot
    BY <1>2, <2>1, AppendCasts DEF Produce, redisVars
  <2> QED
    BY <2>2 DEF Box!Next, Box!Cast
<1>3. ASSUME NEW p \in Partitions, ProduceMalformed(p)
      PROVE  [Box!Next]_(Box!vars)
  <2>1. CastVotes' = CastVotes /\ UNCHANGED ballot
    <3>1. {Malformed} \cap Messages = {}
      BY ConstantsAssumption
    <3>2. log' = [log EXCEPT ![p] = Append(@, Malformed)] /\ UNCHANGED ballot
      BY <1>3 DEF ProduceMalformed, redisVars
    <3>3. CastVotes' = CastVotes \cup ({Malformed} \cap Messages)
      BY <3>2, AppendCasts
    <3> QED
      BY <3>1, <3>2, <3>3
  <2> QED
    BY <2>1 DEF Box!vars
<1>4. ASSUME UNCHANGED log, UNCHANGED redisVars
      PROVE  [Box!Next]_(Box!vars)
  BY <1>4 DEF Box!vars, CastVotes, redisVars
<1>5. CASE Environment
  <2>1. ASSUME NEW q \in Polls, CreatePoll(q) \/ CloseNow(q) \/ FinalizePoll(q)
        PROVE  UNCHANGED log /\ UNCHANGED redisVars
    BY <2>1 DEF CreatePoll, CloseNow, FinalizePoll, kafkaVars
  <2> QED
    BY <1>2, <1>3, <1>4, <1>5, <2>1 DEF Environment
<1>6. CASE UNCHANGED log
  BY <1>1, <1>4, <1>6, RedisSteps
<1> QED
  BY <1>5, <1>6, EnvironmentSteps

(* For every number of consumers and partitions the drain is an exactly-once *)
(* ballot box: whatever is redelivered, retried or reordered, a voter has at *)
(* most one ballot, and it is a vote that was cast inside the window.        *)
THEOREM ImplementsBallotBox == Spec => BallotBoxSpec
<1>1. Spec => []TypeInv
  BY InitType, NextType, PTL DEF Spec
<1>2. Spec => []TallyInv
  BY <1>1, InitTally, NextTally, PTL DEF Spec
<1>3. Spec => []CachedWindowKnown
  <2>1. TypeInv /\ CachedWindowKnown /\ [Next]_vars => CachedWindowKnown'
    BY NextCache
  <2> QED
    BY <1>1, <2>1, InitCache, PTL DEF Spec
<1>4. Spec => []ApplyingInWindow
  <2>1. Init => ApplyingInWindow
    BY DEF Init, ApplyingInWindow
  <2>2. TypeInv /\ CachedWindowKnown /\ ApplyingInWindow /\ [Next]_vars => ApplyingInWindow'
    BY NextApplying
  <2> QED
    BY <1>1, <1>3, <2>1, <2>2, PTL DEF Spec
<1>5. TypeInv /\ TallyInv /\ ApplyingInWindow /\ [Next]_vars => [Box!Next]_(Box!vars)
  BY StepBox
<1> QED
  BY <1>1, <1>2, <1>4, <1>5, InitBox, PTL DEF Spec, BallotBoxSpec, Box!Spec

=============================================================================
