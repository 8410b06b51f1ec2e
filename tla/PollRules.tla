------------------------------ MODULE PollRules ------------------------------
(* The rules a poll is created by and a ballot is checked against            *)
(* (internal/domain), and the store of polls they guard: what Create lets    *)
(* in, every other process has to be able to read and to work with, the      *)
(* capacity advisor (internal/service/capacity) among them.  A slug or a     *)
(* text is the class validate puts it in.                                    *)
EXTENDS Domain

CONSTANTS
  MaxOptions,                      \* 255 in the code: a uint8 counts options
  ShardsPerMaster, MaxShardCount,
  MinLeadTime,                     \* Config.MinLeadTime, 0 to switch it off
  DrainWindow,                     \* seconds
  PrewarmLead,                     \* Config.PrewarmLead of the advisor
  Grace,                           \* SNAPSHOT_FINAL_GRACE
  LagComplete,                     \* no partition is in error when the lag is read
  Slugs, Specs,                    \* the PollSpecs an admin may send
  MaxTime,                         \* bound: the clock stops here
  MaxLag                           \* bound: votes that wait at a time

MinOptions == 2
PollType   == {"single", "multiple"}
Byte       == 0 .. MaxOptions
Uint16     == 65536
Text       == {"text", "blank", "tooLong"}

(* PollSpec.  The conversion is in percent.                                  *)
PollSpec ==
  [slug : Slugs \cup {"malformed"}, question : Text, type : PollType \cup {"other"},
   options : Seq(Text), minChoices : Byte, maxChoices : Byte,
   opensAt : Nat, closesAt : Nat, audience : Int, conversion : Int, masters : Int]

ASSUME RulesAssumption ==
  /\ MaxOptions \in Nat /\ MaxOptions >= MinOptions /\ MaxOptions <= 255
  /\ {ShardsPerMaster, MaxShardCount, DrainWindow} \subseteq Nat \ {0}
  /\ ShardsPerMaster <= MaxShardCount /\ MaxShardCount < Uint16
  /\ {MinLeadTime, PrewarmLead, Grace, MaxTime, MaxLag} \subseteq Nat
  /\ LagComplete \in BOOLEAN
  /\ Specs \subseteq PollSpec

VARIABLES
  now,
  polls,   \* Postgres: polls[slug], or NoPoll
  lag      \* votes on the topic whose offset is not committed

vars == <<now, polls, lag>>

NoPoll == [status |-> "absent"]

-----------------------------------------------------------------------------
(* PollSpec.validate, the checks in three groups.                            *)
ValidTexts(s) ==
  /\ s.slug # "malformed"
  /\ s.question = "text"
  /\ s.type \in PollType
  /\ Len(s.options) >= MinOptions /\ Len(s.options) <= MaxOptions
  /\ \A i \in 1 .. Len(s.options) : s.options[i] = "text"
  /\ s.audience >= 0
  /\ s.conversion >= 0 /\ s.conversion <= 100

(* Mutant: min_choices is not compared with the number of options.           *)
ValidChoiceBoundsNoOptions(s) ==
  s.type = "multiple" =>
    /\ s.minChoices # 0
    /\ s.maxChoices > 0 => s.maxChoices >= s.minChoices

ValidChoiceBounds(s) ==
  s.type = "multiple" =>
    /\ s.minChoices # 0
    /\ s.maxChoices > 0 => s.maxChoices >= s.minChoices
    /\ s.minChoices <= Len(s.options)

ValidWindow(s, t) ==
  /\ s.opensAt # 0 /\ s.closesAt # 0
  /\ s.closesAt > s.opensAt
  /\ MinLeadTime > 0 => s.opensAt - t >= MinLeadTime

Valid(s, t) == ValidTexts(s) /\ ValidChoiceBounds(s) /\ ValidWindow(s, t)

(* Mutant: every master gets its shards, as many as there are.               *)
ShardCountForNoLimit(masters) ==
  IF masters <= 1 THEN ShardsPerMaster ELSE (masters * ShardsPerMaster) % Uint16

ShardCountFor(masters) ==
  IF masters <= 1 THEN ShardsPerMaster
  ELSE IF masters > MaxShardCount \div ShardsPerMaster THEN MaxShardCount
  ELSE (masters * ShardsPerMaster) % Uint16

(* NewPoll: a single-choice poll has its bounds set, whatever was sent.      *)
NewPoll(s) ==
  [status |-> "scheduled", version |-> 1, type |-> s.type,
   options |-> Len(s.options),
   minChoices |-> IF s.type = "single" THEN 1 ELSE s.minChoices,
   maxChoices |-> IF s.type = "single" THEN 1 ELSE s.maxChoices,
   opensAt |-> s.opensAt, closesAt |-> s.closesAt,
   shardCount |-> ShardCountFor(s.masters),
   expectedVotes |-> (s.audience * s.conversion) \div 100]

Init == now = 1 /\ polls = [g \in Slugs |-> NoPoll] /\ lag = 0

Tick ==
  /\ now < MaxTime
  /\ now' = now + 1
  /\ UNCHANGED <<polls, lag>>

(* Service.Create: an invalid spec is answered with 400 and a slug that is   *)
(* taken with 409, by the unique index; neither leaves a trace.              *)
Create(s) ==
  /\ Valid(s, now)
  /\ polls[s.slug] = NoPoll
  /\ polls' = [polls EXCEPT ![s.slug] = NewPoll(s)]
  /\ UNCHANGED <<now, lag>>

-----------------------------------------------------------------------------
(* What the other actors do to the row, as PollStore and Snapshotter have it *)
(* in detail: a write that loses its race changes nothing.                   *)
SetStatus(g, to) == polls' = [polls EXCEPT ![g].status = to, ![g].version = @ + 1]

(* An admin opens a poll whenever it is scheduled; a snapshotter does so on  *)
(* time.                                                                     *)
Open(g) ==
  /\ CanTransitionTo(polls[g].status, "open")
  /\ SetStatus(g, "open")
  /\ UNCHANGED <<now, lag>>

PollIsOpenAt(p, t) == IsOpenAt(p.status, [opensAt |-> p.opensAt, closesAt |-> p.closesAt], t)

Close(g) ==
  /\ polls[g].status = "open"
  /\ PollIsOpenAt(polls[g], now)
  /\ polls' = [polls EXCEPT ![g].closesAt = now, ![g].version = @ + 1]
  /\ UNCHANGED <<now, lag>>

(* What kafkaLag.Lag may return without an error: the votes that wait, less  *)
(* those of the partitions whose lag is not known.                           *)
KafkaLag == IF LagComplete THEN {lag} ELSE 0 .. lag

(* Finalize, after the grace period and when the lag over all polls reads    *)
(* zero.                                                                     *)
Finalize(g) ==
  /\ polls[g].status = "open"
  /\ now >= polls[g].closesAt + Grace
  /\ 0 \in KafkaLag
  /\ SetStatus(g, "closed")
  /\ UNCHANGED <<now, lag>>

(* A vote lands on the topic, at the latest within the grace period.         *)
Land(g) ==
  /\ polls[g].status = "open"
  /\ now >= polls[g].opensAt /\ now < polls[g].closesAt + Grace
  /\ lag < MaxLag
  /\ lag' = lag + 1
  /\ UNCHANGED <<now, polls>>

(* A consumer commits a vote.                                                *)
Drain ==
  /\ lag > 0
  /\ lag' = lag - 1
  /\ UNCHANGED <<now, polls>>

Next ==
  \/ Tick \/ Drain
  \/ \E s \in Specs : Create(s)
  \/ \E g \in Slugs : Open(g) \/ Close(g) \/ Finalize(g) \/ Land(g)

Spec == Init /\ [][Next]_vars

Stored == { polls[g] : g \in Slugs } \ {NoPoll}

-----------------------------------------------------------------------------
(* scanPoll: the checks a row has to pass when it is read.  The version is   *)
(* written at most three times and its upper limit is left out.              *)
Scans(p) ==
  /\ p.type \in PollType
  /\ p.status \in Status
  /\ p.minChoices \in 0 .. 255 /\ p.maxChoices \in 0 .. 255
  /\ p.shardCount \in 1 .. MaxShardCount
  /\ p.version >= 1
  /\ p.options - 1 \in 0 .. MaxOptions

(* Mutant: an option may be named twice.                                     *)
ValidateKeepsDuplicates(p, choices) ==
  LET n == Len(choices) IN
  /\ n # 0
  /\ \/ p.type = "single" /\ n = 1
     \/ p.type = "multiple" /\ n >= p.minChoices /\ (p.maxChoices > 0 => n <= p.maxChoices)
  /\ \A i \in 1 .. n : choices[i] < p.options

(* ChoiceRules.Validate of a list of option indexes, in any order.           *)
Validate(p, choices) ==
  LET n == Len(choices) IN
  /\ n # 0
  /\ \/ p.type = "single" /\ n = 1
     \/ p.type = "multiple" /\ n >= p.minChoices /\ (p.maxChoices > 0 => n <= p.maxChoices)
  /\ \A i \in 1 .. n : choices[i] < p.options
  /\ \A i, j \in 1 .. n : i # j => choices[i] # choices[j]

-----------------------------------------------------------------------------
(* CapacityFor, in exact arithmetic.                                         *)
votesPerAPIPod         == 70000
votesPerSecPerMaster   == 80000
votesPerSecPerConsumer == 30000
peakWindowSecs         == 15
safetyMargin           == 2

(* Mutant: the quotient is rounded down.                                     *)
ceilUnitsFloor(load, seconds, perUnit) == Larger(1, load \div (seconds * perUnit))

(* ceilUnits of a load per second, load / seconds.                           *)
ceilUnits(load, seconds, perUnit) == Larger(1, load \div (seconds * perUnit) + 1)

CapacityFor(votes) ==
  IF votes <= 0
    THEN [voteAPI |-> 2, consumers |-> 0, redisMasters |-> 0, kafkaPartitions |-> 1]
    ELSE LET drain(perUnit) == ceilUnits(votes * safetyMargin, DrainWindow, perUnit) IN
         [voteAPI |-> Larger(2, ceilUnits((votes * safetyMargin) \div 2, peakWindowSecs, votesPerAPIPod)),
          consumers |-> drain(votesPerSecPerConsumer),
          redisMasters |-> drain(votesPerSecPerMaster),
          kafkaPartitions |-> drain(votesPerSecPerConsumer)]

-----------------------------------------------------------------------------
(* Advisor.Advise.  ListActive sorts by opens_at and then by a random id, so *)
(* of polls that open together any may come first.                           *)
ActivePolls == { p \in Stored : p.status \in {"scheduled", "open"} }

Earliest(P) == { p \in P : \A q \in P : p.opensAt <= q.opensAt }
Latest(P)   == { p \in P : \A q \in P : p.opensAt >= q.opensAt }

(* Mutant: an error of the lag is no lag.                                    *)
ReadLagZero == {0} \cup KafkaLag

(* What Advise takes for the lag: an error counts as one vote.               *)
ReadLag == {1} \cup KafkaLag

Live(p)        == p.status = "open" /\ PollIsOpenAt(p, now)
Draining(p, l) == p.status = "open" /\ ~Live(p) /\ l > 0

(* Mutant: a poll that an admin has opened early is not near.                *)
NearIfScheduled(p) ==
  p.status = "scheduled" /\ now + PrewarmLead > p.opensAt /\ now < p.closesAt

(* Near in time, whatever its status.                                        *)
Near(p) == now + PrewarmLead > p.opensAt /\ now < p.closesAt

Advice(phase, votes) == [phase |-> phase, desired |-> CapacityFor(votes)]

(* The advice on a lag of l.  The first poll that is live or draining        *)
(* decides; without one, the last that is near.                              *)
Advise(l) ==
  LET urgent == { p \in ActivePolls : Live(p) \/ Draining(p, l) }
      near == { p \in ActivePolls : Near(p) } IN
  IF urgent # {}
    THEN { Advice(IF Live(p) THEN "live" ELSE "drain", p.expectedVotes) : p \in Earliest(urgent) }
  ELSE IF near # {}
    THEN { Advice("prewarm", p.expectedVotes) : p \in Latest(near) }
  ELSE { Advice("idle", 0) }

-----------------------------------------------------------------------------
(* Every poll that Create stores can be read back.  One row that does not    *)
(* scan fails the whole ListActive, and with it every cache refresh and      *)
(* every snapshot of every poll (query in polls.go).                         *)
EveryRowScans == \A p \in Stored : Scans(p)

(* Every poll that Create stores has a ballot that Accept takes: the bounds  *)
(* validate checks leave room for one.                                       *)
EveryPollHasABallot ==
  \A p \in Stored : \E n \in 1 .. MaxOptions : Validate(p, [i \in 1 .. n |-> i - 1])

(* The lists of at most n option indexes, and one index too many.            *)
ChoiceLists(n) == UNION { [1 .. k -> 0 .. n] : k \in 0 .. n + 1 }

(* What Accept takes is a set of options: as a list it has no order and no   *)
(* repetition, and its size is between the bounds.  Nothing behind Accept    *)
(* checks the range and the bounds again (validateVote in tally.go does not).*)
ValidIsASet ==
  \A p \in Stored : \A choices \in ChoiceLists(p.options) :
    LET chosen == { choices[i] : i \in 1 .. Len(choices) }
        most == IF p.maxChoices = 0 THEN p.options ELSE p.maxChoices IN
    Validate(p, choices) <=>
      /\ Len(choices) = Cardinality(chosen)
      /\ chosen \subseteq 0 .. p.options - 1
      /\ Cardinality(chosen) \in p.minChoices .. most

(* The capacity c takes twice the votes: within the drain window, at the     *)
(* peak, and with a partition for every consumer.                            *)
Sufficient(c, votes) ==
  LET load == safetyMargin * votes IN
  /\ c.redisMasters * votesPerSecPerMaster * DrainWindow >= load
  /\ c.consumers * votesPerSecPerConsumer * DrainWindow >= load
  /\ c.voteAPI * votesPerAPIPod * peakWindowSecs * 2 >= load
  /\ c.consumers <= c.kafkaPartitions

(* The capacity for a poll drains its votes within the drain window, at      *)
(* twice the expected load, and no consumer is without a partition           *)
(* (CapacityFor).                                                            *)
CapacityDrains ==
  \A p \in Stored :
    p.expectedVotes > 0 => Sufficient(CapacityFor(p.expectedVotes), p.expectedVotes)

(* While a vote waits on the topic the advisor asks for consumers, also when *)
(* reading the lag fails: no poll is finalized before the topic is drained,  *)
(* so the poll of the vote is open and the advice is live or drain.  A poll  *)
(* without expected votes is excepted: its capacity is the baseline, which   *)
(* has no consumer (Advise, CapacityFor).                                    *)
VotesHaveConsumers ==
  (lag > 0 /\ \A p \in ActivePolls : p.expectedVotes > 0)
    => \A l \in ReadLag : \A a \in Advise(l) :
         a.phase \in {"live", "drain"} /\ a.desired.consumers >= 1

(* A broadcast of its own has the capacity for its votes at every moment     *)
(* that it needs it: from PrewarmLead before it opens to its end, whoever    *)
(* opened it and when, and as long as a vote of it waits, whether the lag    *)
(* can be read or not.  The phases of the advice leave no gap (Advise).      *)
BroadcastIsCovered ==
  \A p \in ActivePolls :
    /\ ActivePolls = {p} /\ p.expectedVotes > 0
    /\ lag > 0 \/ (now + PrewarmLead > p.opensAt /\ now < p.closesAt)
    => \A l \in ReadLag : \A a \in Advise(l) : Sufficient(a.desired, p.expectedVotes)

=============================================================================
