--------------------------- MODULE PollRulesProofs ---------------------------
(* What Create stores is fit for use, for every spec an admin can send and   *)
(* every value of the limits.                                                *)
EXTENDS PollRules, FiniteSetTheorems, TLAPS

(* The shard count of a poll is never zero and never above the limit, and    *)
(* its conversion to uint16 loses nothing.                                   *)
LEMMA ShardCountInRange ==
  ASSUME NEW m \in Int
  PROVE  ShardCountFor(m) \in 1 .. MaxShardCount
<1> DEFINE d == MaxShardCount \div ShardsPerMaster
<1>0. /\ ShardsPerMaster \in Nat /\ ShardsPerMaster > 0
      /\ MaxShardCount \in Nat /\ MaxShardCount > 0
      /\ ShardsPerMaster <= MaxShardCount /\ MaxShardCount < 65536
  BY RulesAssumption DEF Uint16
<1>1. CASE m <= 1
  BY <1>0, <1>1 DEF ShardCountFor
<1>2. CASE m > 1 /\ m > d
  BY <1>0, <1>2 DEF ShardCountFor
<1>3. CASE m > 1 /\ m <= d
  <2>1. d \in Nat /\ d * ShardsPerMaster <= MaxShardCount
    BY <1>0
  <2>2. m * ShardsPerMaster <= d * ShardsPerMaster
    BY <1>0, <1>3, <2>1
  <2>3. m * ShardsPerMaster \in 1 .. MaxShardCount
    BY <1>0, <1>3, <2>1, <2>2
  <2>4. (m * ShardsPerMaster) % 65536 = m * ShardsPerMaster
    BY <1>0, <2>3
  <2> QED
    BY <1>0, <1>3, <2>3, <2>4 DEF ShardCountFor, Uint16
<1> QED
  BY <1>0, <1>1, <1>2, <1>3

PollRow ==
  [status : Status, version : Nat \ {0}, type : PollType, options : Nat,
   minChoices : Nat, maxChoices : Nat, opensAt : Nat, closesAt : Nat,
   shardCount : Nat, expectedVotes : Int]

(* No operation after Create changes what a poll is about.                   *)
Keeps(p, q) ==
  /\ p.type = q.type /\ p.options = q.options
  /\ p.minChoices = q.minChoices /\ p.maxChoices = q.maxChoices
  /\ p.shardCount = q.shardCount

(* A poll that is stored came out of NewPoll, from a spec that was valid.    *)
Created(p) ==
  /\ p \in PollRow
  /\ \E s \in Specs, t \in Nat : Valid(s, t) /\ Keeps(p, NewPoll(s))

Origin == \A g \in Slugs : polls[g] = NoPoll \/ Created(polls[g])

StoreInv ==
  /\ now \in Nat
  /\ DOMAIN polls = Slugs
  /\ Origin

(* A step that writes one poll leaves the store in order if the row it       *)
(* writes is.                                                                *)
LEMMA WriteOne ==
  ASSUME StoreInv, NEW g \in Slugs, NEW p, Created(p),
         polls' = [polls EXCEPT ![g] = p], now' = now
  PROVE  StoreInv'
<1>1. now' \in Nat /\ DOMAIN polls' = Slugs
  BY DEF StoreInv
<1>2. ASSUME NEW h \in Slugs PROVE polls'[h] = NoPoll \/ Created(polls'[h])
  <2>1. CASE h = g
    <3>1. polls'[h] = p
      BY <2>1 DEF StoreInv
    <3> QED
      BY <3>1
  <2>2. CASE h # g
    <3>1. polls'[h] = polls[h]
      BY <2>2 DEF StoreInv
    <3> QED
      BY <3>1 DEF StoreInv, Origin
  <2> QED
    BY <2>1, <2>2
<1>3. Origin'
  BY <1>2 DEF Origin, Created
<1> QED
  BY <1>1, <1>3 DEF StoreInv

(* Only a poll that exists has a status.                                     *)
LEMMA StatusMeansCreated ==
  ASSUME StoreInv, NEW g \in Slugs, polls[g].status \in {"scheduled", "open"}
  PROVE  Created(polls[g])
BY DEF StoreInv, Origin, NoPoll

LEMMA NewPollTyped ==
  ASSUME NEW s \in PollSpec, NEW t \in Nat, Valid(s, t)
  PROVE  NewPoll(s) \in PollRow
<1>1. /\ s.type \in PollType /\ s.minChoices \in Nat /\ s.maxChoices \in Nat
      /\ Len(s.options) \in Nat /\ s.opensAt \in Nat /\ s.closesAt \in Nat
      /\ s.masters \in Int
  BY RulesAssumption DEF PollSpec, Byte, Valid, ValidTexts
<1>2. (s.audience * s.conversion) \div 100 \in Int
  <2>1. s.audience \in Int /\ s.conversion \in Int
    BY DEF PollSpec
  <2>2. s.audience * s.conversion \in Int
    BY <2>1
  <2> QED
    BY <2>2
<1>3. ShardCountFor(s.masters) \in Nat
  <2>1. ShardCountFor(s.masters) \in 1 .. MaxShardCount
    BY <1>1, ShardCountInRange
  <2>2. MaxShardCount \in Nat
    BY RulesAssumption
  <2> QED
    BY <2>1, <2>2
<1> QED
  BY <1>1, <1>2, <1>3 DEF NewPoll, PollRow, Status

LEMMA StaysCreated ==
  ASSUME NEW p, Created(p)
  PROVE  /\ \A to \in Status : Created([p EXCEPT !.status = to, !.version = @ + 1])
         /\ \A t \in Nat : Created([p EXCEPT !.closesAt = t, !.version = @ + 1])
<1>1. p \in PollRow
  BY DEF Created
<1>2. PICK s \in Specs, t \in Nat : Valid(s, t) /\ Keeps(p, NewPoll(s))
  BY DEF Created
<1>3. ASSUME NEW to \in Status
      PROVE  Created([p EXCEPT !.status = to, !.version = @ + 1])
  <2> DEFINE r == [p EXCEPT !.status = to]
             q == [r EXCEPT !.version = p.version + 1]
  <2>1. r \in PollRow /\ Keeps(r, p)
    BY <1>1 DEF PollRow, Keeps
  <2>2. p.version + 1 \in Nat \ {0}
    BY <1>1 DEF PollRow
  <2> HIDE DEF r
  <2>3. q \in PollRow /\ Keeps(q, r)
    BY <2>1, <2>2 DEF PollRow, Keeps
  <2>4. Keeps(q, NewPoll(s))
    BY <1>2, <2>1, <2>3 DEF Keeps
  <2>5. Created(q)
    BY <1>2, <2>3, <2>4 DEF Created
  <2> QED
    BY <2>5 DEF r
<1>4. ASSUME NEW u \in Nat
      PROVE  Created([p EXCEPT !.closesAt = u, !.version = @ + 1])
  <2> DEFINE r == [p EXCEPT !.closesAt = u]
             q == [r EXCEPT !.version = p.version + 1]
  <2>1. r \in PollRow /\ Keeps(r, p)
    BY <1>1 DEF PollRow, Keeps
  <2>2. p.version + 1 \in Nat \ {0}
    BY <1>1 DEF PollRow
  <2> HIDE DEF r
  <2>3. q \in PollRow /\ Keeps(q, r)
    BY <2>1, <2>2 DEF PollRow, Keeps
  <2>4. Keeps(q, NewPoll(s))
    BY <1>2, <2>1, <2>3 DEF Keeps
  <2>5. Created(q)
    BY <1>2, <2>3, <2>4 DEF Created
  <2> QED
    BY <2>5 DEF r
<1> QED
  BY <1>3, <1>4

LEMMA ExceptStatus ==
  ASSUME NEW p, Created(p)
  PROVE  /\ \A to \in Status : [p EXCEPT !.status = to, !.version = @ + 1].status = to
         /\ \A t \in Nat : [p EXCEPT !.closesAt = t, !.version = @ + 1].status = p.status
<1>1. p \in PollRow
  BY DEF Created
<1> QED
  BY <1>1 DEF PollRow

LEMMA StoreInductive == Spec => []StoreInv
<1>1. Init => StoreInv
  BY DEF Init, StoreInv, Origin
<1>2. StoreInv /\ [Next]_vars => StoreInv'
  <2> SUFFICES ASSUME StoreInv, [Next]_vars PROVE StoreInv'
    OBVIOUS
  <2>1. CASE Tick
    BY <2>1 DEF Tick, StoreInv, Origin
  <2>2. ASSUME NEW s \in Specs, Create(s)
        PROVE  StoreInv'
    <3>1. s \in PollSpec /\ Valid(s, now) /\ now \in Nat
      BY <2>2, RulesAssumption DEF Create, StoreInv
    <3>2. s.slug \in Slugs
      BY <3>1 DEF PollSpec, Valid, ValidTexts
    <3>3. NewPoll(s) \in PollRow
      BY <3>1, NewPollTyped
    <3>4. Keeps(NewPoll(s), NewPoll(s))
      BY DEF Keeps
    <3>5. Created(NewPoll(s))
      BY <3>1, <3>3, <3>4 DEF Created
    <3> QED
      BY <2>2, <3>2, <3>5, WriteOne DEF Create
  <2>3. ASSUME NEW g \in Slugs, NEW to \in {"open", "closed"}, SetStatus(g, to), now' = now,
               polls[g].status \in {"scheduled", "open"}
        PROVE  StoreInv'
    <3> DEFINE p == [polls[g] EXCEPT !.status = to, !.version = @ + 1]
    <3>1. Created(polls[g])
      BY <2>3, StatusMeansCreated
    <3>2. Created(p)
      BY <3>1, StaysCreated DEF Status
    <3>3. polls' = [polls EXCEPT ![g] = p]
      BY <2>3 DEF SetStatus
    <3> QED
      BY <2>3, <3>2, <3>3, WriteOne
  <2>4. ASSUME NEW g \in Slugs, Open(g)
        PROVE  StoreInv'
    <3>1. polls[g].status = "scheduled"
      BY <2>4 DEF Open, CanTransitionTo, transitions
    <3> QED
      BY <2>3, <2>4, <3>1 DEF Open
  <2>5. ASSUME NEW g \in Slugs, Close(g)
        PROVE  StoreInv'
    <3> DEFINE p == [polls[g] EXCEPT !.closesAt = now, !.version = @ + 1]
    <3>1. Created(polls[g])
      BY <2>5, StatusMeansCreated DEF Close
    <3>2. Created(p)
      BY <3>1, StaysCreated DEF StoreInv
    <3>3. polls' = [polls EXCEPT ![g] = p] /\ now' = now
      BY <2>5 DEF Close
    <3> QED
      BY <3>2, <3>3, WriteOne
  <2>6. ASSUME NEW g \in Slugs, Finalize(g)
        PROVE  StoreInv'
    BY <2>3, <2>6 DEF Finalize
  <2>7. CASE Drain \/ (\E g \in Slugs : Land(g)) \/ UNCHANGED vars
    <3>1. polls' = polls /\ now' = now
      BY <2>7 DEF Drain, Land, vars
    <3> QED
      BY <3>1 DEF StoreInv, Origin
  <2> QED
    BY <2>1, <2>2, <2>4, <2>5, <2>6, <2>7 DEF Next
<1> QED
  BY <1>1, <1>2, PTL DEF Spec

LEMMA NewPollScans ==
  ASSUME NEW s \in Specs, NEW t \in Nat, Valid(s, t),
         NEW q \in PollRow, Keeps(q, NewPoll(s))
  PROVE  Scans(q)
<1>1. s \in PollSpec
  BY RulesAssumption
<1>2. /\ s.type \in PollType /\ s.masters \in Int
      /\ s.minChoices \in 0 .. 255 /\ s.maxChoices \in 0 .. 255
  <2>1. /\ s.masters \in Int
        /\ s.minChoices \in 0 .. MaxOptions /\ s.maxChoices \in 0 .. MaxOptions
    BY <1>1 DEF PollSpec, Byte
  <2>2. s.type \in PollType
    BY DEF Valid, ValidTexts
  <2>3. MaxOptions \in Nat /\ MaxOptions <= 255
    BY RulesAssumption
  <2> QED
    BY <2>1, <2>2, <2>3
<1>3. Len(s.options) \in Nat /\ Len(s.options) >= 2 /\ Len(s.options) <= MaxOptions
  BY <1>1 DEF PollSpec, Valid, ValidTexts, MinOptions
<1>4. ShardCountFor(s.masters) \in 1 .. MaxShardCount
  BY <1>2, ShardCountInRange
<1>5. Len(s.options) - 1 \in 0 .. MaxOptions
  BY <1>3, RulesAssumption
<1> QED
  BY <1>2, <1>4, <1>5 DEF Scans, NewPoll, Keeps, PollRow

(* Every poll an admin manages to create can be read by every process: no    *)
(* accepted spec produces a row on which scanPoll, and with it ListActive,   *)
(* fails.                                                                    *)
THEOREM StoredPollsScan == Spec => []EveryRowScans
<1>1. StoreInv => EveryRowScans
  BY NewPollScans DEF StoreInv, Origin, Created, EveryRowScans, Stored
<1> QED
  BY <1>1, StoreInductive, PTL

LEMMA NewPollHasABallot ==
  ASSUME NEW s \in Specs, NEW t \in Nat, Valid(s, t),
         NEW p \in PollRow, Keeps(p, NewPoll(s))
  PROVE  \E n \in 1 .. MaxOptions : Validate(p, [i \in 1 .. n |-> i - 1])
<1> DEFINE n == p.minChoices
           b == [i \in 1 .. n |-> i - 1]
<1>1. s \in PollSpec
  BY RulesAssumption
<1>2. /\ s.type \in PollType
      /\ s.minChoices \in Nat /\ s.maxChoices \in Nat
      /\ Len(s.options) \in Nat /\ Len(s.options) >= 2 /\ Len(s.options) <= MaxOptions
      /\ MaxOptions \in Nat
  BY <1>1, RulesAssumption DEF PollSpec, Byte, Valid, ValidTexts, MinOptions
<1>3. /\ p.type = s.type /\ p.options = Len(s.options)
      /\ n \in 1 .. p.options
      /\ p.type = "single" => n = 1
      /\ p.type = "multiple" => (p.maxChoices > 0 => n <= p.maxChoices)
  BY <1>2 DEF Keeps, NewPoll, Valid, ValidChoiceBounds, PollType
<1>4. n \in Nat /\ p.options \in Nat /\ n \in 1 .. MaxOptions
  BY <1>2, <1>3
<1> HIDE DEF n
<1>5. Len(b) = n
  BY <1>4
<1>6. /\ \A i \in 1 .. n : b[i] < p.options
      /\ \A i, j \in 1 .. n : i # j => b[i] # b[j]
  BY <1>3, <1>4
<1> HIDE DEF b
<1>7. Validate(p, b)
  BY <1>2, <1>3, <1>4, <1>5, <1>6 DEF Validate, PollType, n
<1> QED
  BY <1>4, <1>7 DEF b

(* No poll an admin manages to create is one that nobody can vote in.        *)
THEOREM EveryPollCanBeVotedIn == Spec => []EveryPollHasABallot
<1>1. StoreInv => EveryPollHasABallot
  BY NewPollHasABallot DEF StoreInv, Origin, Created, EveryPollHasABallot, Stored
<1> QED
  BY <1>1, StoreInductive, PTL

-----------------------------------------------------------------------------
(* A vote that waits keeps some poll open: only Finalize ends that status,   *)
(* and not before the topic is drained.                                      *)
WaitInv ==
  /\ lag \in Nat
  /\ lag > 0 => \E g \in Slugs : polls[g].status = "open"

LEMMA WaitInductive ==
  ASSUME LagComplete
  PROVE  Spec => [](StoreInv /\ WaitInv)
<1>1. Init => WaitInv
  BY DEF Init, WaitInv
<1>2. StoreInv /\ WaitInv /\ [Next]_vars => WaitInv'
  <2> SUFFICES ASSUME StoreInv, WaitInv, [Next]_vars PROVE WaitInv'
    OBVIOUS
  <2>0. DOMAIN polls = Slugs
    BY DEF StoreInv
  <2>1. CASE Tick \/ UNCHANGED vars
    BY <2>1 DEF Tick, vars, WaitInv
  <2>2. CASE Drain
    BY <2>2 DEF Drain, WaitInv
  <2>3. ASSUME NEW g \in Slugs, Land(g)
        PROVE  WaitInv'
    BY <2>3 DEF Land, WaitInv
  <2>4. ASSUME NEW s \in Specs, Create(s)
        PROVE  WaitInv'
    <3>1. ASSUME NEW g \in Slugs, polls[g].status = "open"
          PROVE  polls'[g].status = "open"
      <4>1. g # s.slug
        BY <2>4, <3>1 DEF Create, NoPoll
      <4>2. polls'[g] = polls[g]
        BY <2>0, <2>4, <4>1 DEF Create
      <4> QED
        BY <3>1, <4>2
    <3>2. lag' = lag
      BY <2>4 DEF Create
    <3> QED
      BY <3>1, <3>2 DEF WaitInv
  <2>5. ASSUME NEW g \in Slugs, Open(g)
        PROVE  WaitInv'
    <3> DEFINE p == [polls[g] EXCEPT !.status = "open", !.version = @ + 1]
    <3>1. Created(polls[g])
      BY <2>5, StatusMeansCreated DEF Open, CanTransitionTo, transitions
    <3>2. polls'[g] = p /\ lag' = lag
      BY <2>0, <2>5 DEF Open, SetStatus
    <3>3. p.status = "open"
      BY <3>1, ExceptStatus DEF Status
    <3> QED
      BY <3>2, <3>3 DEF WaitInv
  <2>6. ASSUME NEW g \in Slugs, Close(g)
        PROVE  WaitInv'
    <3> DEFINE p == [polls[g] EXCEPT !.closesAt = now, !.version = @ + 1]
    <3>1. Created(polls[g]) /\ polls[g].status = "open"
      BY <2>6, StatusMeansCreated DEF Close
    <3>2. polls'[g] = p /\ lag' = lag
      BY <2>0, <2>6 DEF Close
    <3>3. p.status = "open"
      BY <3>1, ExceptStatus DEF StoreInv
    <3> QED
      BY <3>2, <3>3 DEF WaitInv
  <2>7. ASSUME NEW g \in Slugs, Finalize(g)
        PROVE  WaitInv'
    BY <2>7 DEF Finalize, KafkaLag, WaitInv
  <2> QED
    BY <2>1, <2>2, <2>3, <2>4, <2>5, <2>6, <2>7 DEF Next
<1> QED
  BY <1>1, <1>2, StoreInductive, PTL DEF Spec

(* The capacity for any votes at all has a consumer.                         *)
LEMMA CapacityHasConsumers ==
  ASSUME NEW votes \in Int, votes > 0
  PROVE  CapacityFor(votes).consumers >= 1
<1> DEFINE load == votes * safetyMargin
           unit == DrainWindow * votesPerSecPerConsumer
           quotient == load \div unit
<1>1. load \in Int /\ unit \in Nat /\ unit > 0
  BY RulesAssumption DEF safetyMargin, votesPerSecPerConsumer
<1>2. quotient \in Int
  BY <1>1
<1>3. CapacityFor(votes).consumers = Larger(1, quotient + 1)
  BY DEF CapacityFor, ceilUnits
<1> HIDE DEF quotient
<1> QED
  BY <1>2, <1>3 DEF Larger

(* A poll is urgent while a vote waits, whatever Advise takes for the lag.   *)
LEMMA WaitingIsUrgent ==
  ASSUME LagComplete, WaitInv, lag > 0, NEW l \in ReadLag
  PROVE  \E p \in ActivePolls : Live(p) \/ Draining(p, l)
<1>1. l > 0
  BY DEF ReadLag, KafkaLag, WaitInv
<1>2. PICK g \in Slugs : polls[g].status = "open"
  BY DEF WaitInv
<1>3. polls[g] \in ActivePolls
  BY <1>2 DEF ActivePolls, Stored, NoPoll
<1> QED
  BY <1>1, <1>2, <1>3 DEF Draining

LEMMA ExpectedIsInt ==
  ASSUME StoreInv, NEW p \in Stored
  PROVE  p.expectedVotes \in Int
BY DEF Stored, StoreInv, Origin, Created, PollRow

(* While a vote waits, the advisor never sends the consumers home, whether   *)
(* or not reading the lag fails.  A lag that is silently too low is what     *)
(* LagComplete excludes.                                                     *)
THEOREM WaitingVotesHaveConsumers ==
  ASSUME LagComplete
  PROVE  Spec => []VotesHaveConsumers
<1>1. StoreInv /\ WaitInv => VotesHaveConsumers
  <2> SUFFICES ASSUME StoreInv, WaitInv, lag > 0,
                      \A p \in ActivePolls : p.expectedVotes > 0,
                      NEW l \in ReadLag, NEW a \in Advise(l)
               PROVE  a.phase \in {"live", "drain"} /\ a.desired.consumers >= 1
    BY DEF VotesHaveConsumers
  <2> DEFINE urgent == { p \in ActivePolls : Live(p) \/ Draining(p, l) }
  <2>1. urgent # {}
    BY WaitingIsUrgent
  <2>2. PICK p \in urgent : a = Advice(IF Live(p) THEN "live" ELSE "drain", p.expectedVotes)
    BY <2>1 DEF Advise, Earliest
  <2>3. p \in ActivePolls /\ p \in Stored
    BY DEF ActivePolls
  <2>4. p.expectedVotes \in Int /\ p.expectedVotes > 0
    BY <2>3, ExpectedIsInt
  <2>5. CapacityFor(p.expectedVotes).consumers >= 1
    BY <2>4, CapacityHasConsumers
  <2> QED
    BY <2>2, <2>5 DEF Advice
<1> QED
  BY <1>1, WaitInductive, PTL

-----------------------------------------------------------------------------
(* Units that together take a load in the given time.                        *)
Takes(units, perUnit, seconds, load) == units \in Nat /\ units * perUnit * seconds >= load

LEMMA CeilUnitsSuffice ==
  ASSUME NEW load \in Nat, NEW seconds \in Nat \ {0}, NEW perUnit \in Nat \ {0}
  PROVE  Takes(ceilUnits(load, seconds, perUnit), perUnit, seconds, load)
<1> DEFINE unit == seconds * perUnit
           quotient == load \div unit
           units == Larger(1, quotient + 1)
<1>1. unit \in Nat /\ unit > 0
  OBVIOUS
<1>2. units * perUnit * seconds = units * unit
  <2> HIDE DEF units
  <2>1. units \in Int
    BY <1>1 DEF units, Larger
  <2> QED
    BY <2>1
<1> HIDE DEF unit
<1>3. quotient \in Nat /\ load < (quotient + 1) * unit
  BY <1>1
<1> HIDE DEF quotient
<1>4. units \in Nat /\ units >= quotient + 1
  BY <1>3 DEF Larger
<1> HIDE DEF units
<1>5. units * unit >= (quotient + 1) * unit
  BY <1>1, <1>3, <1>4
<1>6. units * unit >= load
  BY <1>1, <1>3, <1>4, <1>5
<1>7. ceilUnits(load, seconds, perUnit) = units
  BY DEF ceilUnits, units, quotient, unit
<1> QED
  BY <1>2, <1>4, <1>6, <1>7 DEF Takes

(* For every expected number of votes and every drain window.                *)
LEMMA CapacitySuffices ==
  ASSUME NEW votes \in Int, votes > 0
  PROVE  Sufficient(CapacityFor(votes), votes)
<1> DEFINE load == votes * safetyMargin
           pods == ceilUnits(load \div 2, peakWindowSecs, votesPerAPIPod)
           drain(perUnit) == ceilUnits(load, DrainWindow, perUnit)
           c == CapacityFor(votes)
<1>1. /\ load \in Nat /\ load = safetyMargin * votes
      /\ load \div 2 \in Nat /\ load = 2 * (load \div 2)
  BY DEF safetyMargin
<1>2. DrainWindow \in Nat \ {0}
  BY RulesAssumption
<1>3. /\ c.redisMasters = drain(votesPerSecPerMaster)
      /\ c.consumers = drain(votesPerSecPerConsumer)
      /\ c.kafkaPartitions = drain(votesPerSecPerConsumer)
      /\ c.voteAPI = Larger(2, pods)
  BY DEF CapacityFor
<1> HIDE DEF load, c
<1>4. {votesPerSecPerMaster, votesPerSecPerConsumer, votesPerAPIPod, peakWindowSecs}
        \subseteq Nat \ {0}
  BY DEF votesPerSecPerMaster, votesPerSecPerConsumer, votesPerAPIPod, peakWindowSecs
<1>5. /\ Takes(drain(votesPerSecPerMaster), votesPerSecPerMaster, DrainWindow, load)
      /\ Takes(drain(votesPerSecPerConsumer), votesPerSecPerConsumer, DrainWindow, load)
  BY <1>1, <1>2, <1>4, CeilUnitsSuffice
<1>6. Takes(pods, votesPerAPIPod, peakWindowSecs, load \div 2)
  BY <1>1, <1>4, CeilUnitsSuffice
<1> HIDE DEF drain, pods
<1>7. c.voteAPI * votesPerAPIPod * peakWindowSecs * 2 >= load
  BY <1>1, <1>3, <1>6 DEF Takes, Larger, votesPerAPIPod, peakWindowSecs
<1>8. c.consumers <= c.kafkaPartitions
  BY <1>3, <1>5 DEF Takes
<1> QED
  BY <1>1, <1>3, <1>5, <1>7, <1>8 DEF Takes, Sufficient, c

(* The capacity advised for any poll that can be created drains its votes    *)
(* within the drain window.                                                  *)
THEOREM CapacityIsEnough == Spec => []CapacityDrains
<1>1. StoreInv => CapacityDrains
  BY ExpectedIsInt, CapacitySuffices DEF CapacityDrains
<1> QED
  BY <1>1, StoreInductive, PTL

(* The advice for a lone broadcast is enough from PrewarmLead before it      *)
(* opens until the last of its votes is drained: while votes wait, the poll  *)
(* is the one that is open, and at all other times it is live or near.       *)
THEOREM BroadcastIsCoveredHolds ==
  ASSUME LagComplete
  PROVE  Spec => []BroadcastIsCovered
<1>1. StoreInv /\ WaitInv => BroadcastIsCovered
  <2> SUFFICES ASSUME StoreInv, WaitInv, NEW p \in ActivePolls, ActivePolls = {p},
                      p.expectedVotes > 0, lag > 0 \/ Near(p),
                      NEW l \in ReadLag, NEW a \in Advise(l)
               PROVE  Sufficient(a.desired, p.expectedVotes)
    BY DEF BroadcastIsCovered, Near
  <2> DEFINE urgent == { q \in ActivePolls : Live(q) \/ Draining(q, l) }
             near == { q \in ActivePolls : Near(q) }
  <2>1. a.desired = CapacityFor(p.expectedVotes)
    <3>1. CASE urgent # {}
      <4>1. PICK q \in urgent : a = Advice(IF Live(q) THEN "live" ELSE "drain", q.expectedVotes)
        BY <3>1 DEF Advise, Earliest
      <4>2. q = p
        OBVIOUS
      <4> QED
        BY <4>1, <4>2 DEF Advice
    <3>2. CASE urgent = {}
      <4>1. near # {}
        <5>1. ~(lag > 0)
          BY <3>2, WaitingIsUrgent
        <5> QED
          BY <5>1
      <4>2. PICK q \in near : a = Advice("prewarm", q.expectedVotes)
        BY <3>2, <4>1 DEF Advise, Latest
      <4>3. q = p
        OBVIOUS
      <4> QED
        BY <4>2, <4>3 DEF Advice
    <3> QED
      BY <3>1, <3>2
  <2>2. p.expectedVotes \in Int
    BY ExpectedIsInt DEF ActivePolls
  <2> QED
    BY <2>1, <2>2, CapacitySuffices
<1> QED
  BY <1>1, WaitInductive, PTL

-----------------------------------------------------------------------------
(* A list names as many options as it has places just when none is named     *)
(* twice.                                                                    *)
LEMMA DistinctIsCardinality ==
  ASSUME NEW n \in Nat, NEW T, NEW f \in [1 .. n -> T]
  PROVE  LET chosen == { f[i] : i \in 1 .. n } IN
         /\ IsFiniteSet(chosen) /\ Cardinality(chosen) \in Nat
         /\ (n = Cardinality(chosen)) <=> \A i, j \in 1 .. n : i # j => f[i] # f[j]
<1> DEFINE chosen == { f[i] : i \in 1 .. n }
<1>1. f \in Surjection(1 .. n, chosen)
  BY DEF Surjection
<1>2. IsFiniteSet(1 .. n) /\ Cardinality(1 .. n) = n
  BY FS_Interval
<1> HIDE DEF chosen
<1>3. /\ IsFiniteSet(chosen)
      /\ Cardinality(chosen) = n <=> f \in Injection(1 .. n, chosen)
  BY <1>1, <1>2, FS_Surjection
<1>4. Cardinality(chosen) \in Nat
  BY <1>3, FS_CardinalityType
<1>5. f \in Injection(1 .. n, chosen) <=> \A i, j \in 1 .. n : i # j => f[i] # f[j]
  BY <1>1 DEF Injection, IsInjective, Surjection
<1> QED
  BY <1>3, <1>4, <1>5 DEF chosen

(* The bounds of a stored poll: a single-choice poll has 1 and 1, and a      *)
(* multiple-choice poll at least 1.                                          *)
LEMMA StoredBounds ==
  ASSUME NEW p, Created(p)
  PROVE  /\ p.type \in PollType
         /\ {p.options, p.minChoices, p.maxChoices} \subseteq Nat
         /\ p.minChoices >= 1
         /\ p.type = "single" => p.minChoices = 1 /\ p.maxChoices = 1
<1>1. p \in PollRow
  BY DEF Created
<1>2. PICK s \in Specs, t \in Nat : Valid(s, t) /\ Keeps(p, NewPoll(s))
  BY DEF Created
<1>3. s.type \in PollType /\ s.minChoices \in Nat
  BY <1>2, RulesAssumption DEF PollSpec, Byte, Valid, ValidTexts
<1>4. /\ p.type = s.type
      /\ p.minChoices = IF s.type = "single" THEN 1 ELSE s.minChoices
      /\ p.maxChoices = IF s.type = "single" THEN 1 ELSE s.maxChoices
  BY <1>2 DEF Keeps, NewPoll
<1>5. s.type = "multiple" => s.minChoices # 0
  BY <1>2 DEF Valid, ValidChoiceBounds
<1>6. p.minChoices >= 1
  BY <1>3, <1>4, <1>5 DEF PollType
<1> QED
  BY <1>1, <1>3, <1>4, <1>6 DEF PollRow

(* What Accept takes in any poll that can be created is a set of its options *)
(* with a size between its bounds.                                           *)
THEOREM BallotIsASet == Spec => []ValidIsASet
<1>1. StoreInv => ValidIsASet
  <2> SUFFICES ASSUME StoreInv, NEW p \in Stored, NEW choices \in ChoiceLists(p.options)
               PROVE  LET chosen == { choices[i] : i \in 1 .. Len(choices) }
                          most == IF p.maxChoices = 0 THEN p.options ELSE p.maxChoices IN
                      Validate(p, choices) <=>
                        /\ Len(choices) = Cardinality(chosen)
                        /\ chosen \subseteq 0 .. p.options - 1
                        /\ Cardinality(chosen) \in p.minChoices .. most
    BY DEF ValidIsASet
  <2> DEFINE n == Len(choices)
             chosen == { choices[i] : i \in 1 .. n }
             most == IF p.maxChoices = 0 THEN p.options ELSE p.maxChoices
             size == Cardinality(chosen)
             distinct == \A i, j \in 1 .. n : i # j => choices[i] # choices[j]
             inRange == \A i \in 1 .. n : choices[i] < p.options
             sized == \/ p.type = "single" /\ n = 1
                      \/ p.type = "multiple" /\ n >= p.minChoices /\ (p.maxChoices > 0 => n <= p.maxChoices)
  <2>1. Created(p)
    BY DEF Stored, StoreInv, Origin
  <2>2. /\ p.type \in PollType
        /\ p.options \in Nat /\ p.minChoices \in Nat /\ p.maxChoices \in Nat
        /\ p.minChoices >= 1
        /\ p.type = "single" => p.minChoices = 1 /\ p.maxChoices = 1
    BY <2>1, StoredBounds
  <2>3. PICK k \in 0 .. p.options + 1 : choices \in [1 .. k -> 0 .. p.options]
    BY DEF ChoiceLists
  <2>4. k \in Nat /\ n = k
    BY <2>2, <2>3
  <2>5. n \in Nat /\ choices \in [1 .. n -> 0 .. p.options]
    BY <2>3, <2>4
  <2> HIDE DEF n
  <2>6. IsFiniteSet(chosen) /\ size \in Nat /\ (n = size <=> distinct)
    BY <2>5, DistinctIsCardinality
  <2>7. inRange <=> chosen \subseteq 0 .. p.options - 1
    BY <2>2, <2>5
  <2>8. chosen \subseteq 0 .. p.options - 1 => size <= p.options
    <3>1. /\ IsFiniteSet(0 .. p.options - 1)
          /\ Cardinality(0 .. p.options - 1) = IF 0 > p.options - 1 THEN 0 ELSE p.options
      <4> DEFINE first == 0
                 last == p.options - 1
      <4>1. first \in Int /\ last \in Int /\ last - first + 1 = p.options
        BY <2>2
      <4> HIDE DEF first, last
      <4>2. /\ IsFiniteSet(first .. last)
            /\ Cardinality(first .. last) = IF first > last THEN 0 ELSE last - first + 1
        BY <4>1, FS_Interval
      <4>3. /\ IsFiniteSet(first .. last)
            /\ Cardinality(first .. last) = IF first > last THEN 0 ELSE p.options
        BY <4>1, <4>2
      <4> QED
        BY <4>3 DEF first, last
    <3>2. Cardinality(0 .. p.options - 1) <= p.options /\ Cardinality(0 .. p.options - 1) \in Nat
      BY <2>2, <3>1
    <3>3. chosen \subseteq 0 .. p.options - 1 => size <= Cardinality(0 .. p.options - 1)
      BY <3>1, FS_Subset
    <3> QED
      BY <2>2, <2>6, <3>2, <3>3
  <2>9. Validate(p, choices) <=> n # 0 /\ sized /\ inRange /\ distinct
    BY DEF Validate, n
  <2> HIDE DEF chosen, distinct, inRange
  <2>10. ASSUME size = n, n <= p.options PROVE (n # 0 /\ sized) <=> size \in p.minChoices .. most
    BY <2>2, <2>5, <2>10 DEF PollType
  <2>11. Validate(p, choices) <=>
           size = n /\ chosen \subseteq 0 .. p.options - 1 /\ size \in p.minChoices .. most
    <3> HIDE DEF size, sized, most
    <3> QED
      BY <2>6, <2>7, <2>8, <2>9, <2>10
  <2> QED
    BY <2>11 DEF n, chosen
<1> QED
  BY <1>1, StoreInductive, PTL

=============================================================================
