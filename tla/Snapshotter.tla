----------------------------- MODULE Snapshotter -----------------------------
(* The snapshotters (internal/service/snapshot): several instances copy the  *)
(* counters of one poll from Redis to Postgres, open the poll on schedule    *)
(* and close it once the topic is drained, each working on the row it read   *)
(* at the start of its tick.                                                 *)
EXTENDS PollStore

CONSTANTS
  Snapshotters,
  Voters, Options, Shards,
  ShardOf,          \* ShardOf[v]
  ChoicesOf,        \* ChoicesOf[v]: what v votes for
  Grace,            \* Config.Grace
  Late,             \* how long after closesAt an accepted vote can land:
                    \* a cached window's age, the read and produce timeouts
  OtherVotes,       \* bound: how many votes of other polls arrive
  LagComplete       \* assumption: no partition is in error when lag is read

ASSUME SnapshotterAssumption ==
  /\ IsFiniteSet(Voters)
  /\ ShardOf \in [Voters -> Shards]
  /\ ChoicesOf \in [Voters -> (SUBSET Options) \ {{}}]
  /\ Grace \in Nat /\ Late \in Nat /\ Late <= Grace
  /\ OtherVotes \in Nat
  /\ LagComplete \in BOOLEAN

VARIABLES
  backlog,   \* votes on the topic whose offset is not committed
  others,    \* the votes of other polls: [left, lag], still to come and on
             \* the topic
  counted,   \* voters counted in Redis
  counter,   \* Redis: counter[s], the aggregate of shard s
  result,    \* Postgres: poll_results and poll_stats of the poll
  pc,        \* pc[i]: the step of handle instance i is at
  seen,      \* seen[i]: the row i read in ListActive
  at,        \* at[i]: the time i read when handle began
  unread,    \* unread[i]: shards Aggregate has still to read
  agg,       \* agg[i]: what Aggregate, then MergeMax, has computed
  final,     \* final[i]: TickOnce was called by Finalize
  reader,    \* the status a request for the results has read, or "none"
  shown      \* history: the aggregates that were answered as final

voteVars == <<backlog, others, counted, counter>>
tickVars == <<pc, seen, at, unread, agg, final>>
readVars == <<reader, shown>>
vars == <<storeVars, voteVars, result, tickVars, readVars>>

NoVotes == [votes |-> [o \in Options |-> 0], ballots |-> 0]
NoRow   == [status |-> "draft", version |-> 0, closesAt |-> 0]

(* The aggregate of the voters in V.                                         *)
Tally(V) ==
  [votes |-> [o \in Options |-> Cardinality({v \in V : o \in ChoicesOf[v]})],
   ballots |-> Cardinality(V)]

(* Mutant: the ballots of the shards are not added up.                       *)
AddShardLargest(a, c) ==
  [votes |-> [o \in Options |-> a.votes[o] + c.votes[o]],
   ballots |-> Larger(a.ballots, c.ballots)]

(* mergeCounters: the counters of one more shard are added.                  *)
AddShard(a, c) ==
  [votes |-> [o \in Options |-> a.votes[o] + c.votes[o]],
   ballots |-> a.ballots + c.ballots]

Aggregates == [votes : [Options -> 0 .. Cardinality(Voters)], ballots : 0 .. Cardinality(Voters)]

TypeOK ==
  /\ now \in 1 .. MaxTime /\ row \in Row
  /\ admin \in [op : {"idle", "open", "close"}, version : Nat]
  /\ backlog \subseteq Voters /\ counted \subseteq Voters
  /\ others \in [left : 0 .. OtherVotes, lag : 0 .. OtherVotes]
  /\ counter \in [Shards -> Aggregates]
  /\ result \in Aggregates
  /\ pc \in [Snapshotters -> {"idle", "failed", "handle", "open", "read", "get", "upsert", "lag", "close"}]
  /\ seen \in [Snapshotters -> Row]
  /\ at \in [Snapshotters -> 0 .. MaxTime]
  /\ unread \in [Snapshotters -> SUBSET Shards]
  /\ agg \in [Snapshotters -> Aggregates]
  /\ final \in [Snapshotters -> BOOLEAN]
  /\ reader \in Status \cup {"none"}
  /\ shown \subseteq Aggregates

Init ==
  /\ StoreInit
  /\ backlog = {} /\ counted = {}
  /\ others = [left |-> OtherVotes, lag |-> 0]
  /\ counter = [s \in Shards |-> NoVotes]
  /\ result = NoVotes
  /\ pc = [i \in Snapshotters |-> "idle"]
  /\ seen = [i \in Snapshotters |-> NoRow]
  /\ at = [i \in Snapshotters |-> 0]
  /\ unread = [i \in Snapshotters |-> {}]
  /\ agg = [i \in Snapshotters |-> NoVotes]
  /\ final = [i \in Snapshotters |-> FALSE]
  /\ reader = "none" /\ shown = {}

-----------------------------------------------------------------------------
(* The votes, as Counting delivers them: counted once, committed after.      *)

(* A vote the API accepted lands on the topic, at most Late after the window *)
(* has ended.                                                                *)
Land(v) ==
  /\ v \notin backlog \cup counted
  /\ row.status = "open"
  /\ now >= OpensAt
  /\ now < row.closesAt + Late
  /\ backlog' = backlog \cup {v}
  /\ UNCHANGED <<storeVars, others, counted, counter, result, tickVars>>

Count(v) ==
  /\ v \in backlog \ counted
  /\ counted' = counted \cup {v}
  /\ counter' = [counter EXCEPT ![ShardOf[v]] = AddShard(@, Tally({v}))]
  /\ UNCHANGED <<storeVars, backlog, others, result, tickVars>>

Commit(v) ==
  /\ v \in backlog \cap counted
  /\ backlog' = backlog \ {v}
  /\ UNCHANGED <<storeVars, others, counted, counter, result, tickVars>>

(* The other polls share the topic and the consumer group.                   *)
OtherLands ==
  /\ others.left > 0
  /\ others' = [left |-> others.left - 1, lag |-> others.lag + 1]
  /\ UNCHANGED <<storeVars, backlog, counted, counter, result, tickVars>>

OtherCommits ==
  /\ others.lag > 0
  /\ others' = [others EXCEPT !.lag = @ - 1]
  /\ UNCHANGED <<storeVars, backlog, counted, counter, result, tickVars>>

-----------------------------------------------------------------------------
(* Instance i is done with the poll until its next tick; its tick ended in   *)
(* an error or it did not, and the next tick does not depend on that.        *)
EndTick(i, outcome) ==
  /\ pc' = [pc EXCEPT ![i] = outcome]
  /\ seen' = [seen EXCEPT ![i] = NoRow]
  /\ at' = [at EXCEPT ![i] = 0]
  /\ unread' = [unread EXCEPT ![i] = {}]
  /\ agg' = [agg EXCEPT ![i] = NoVotes]
  /\ final' = [final EXCEPT ![i] = FALSE]

Rest(i) == EndTick(i, "idle")

(* Mutant: the aggregate of the previous TickOnce is added to.               *)
BeginTickOnceKeeps(i, isFinal) ==
  /\ pc' = [pc EXCEPT ![i] = "read"]
  /\ unread' = [unread EXCEPT ![i] = Shards]
  /\ agg' = agg
  /\ final' = [final EXCEPT ![i] = isFinal]

(* TickOnce begins: no shard has been read.                                  *)
BeginTickOnce(i, isFinal) ==
  /\ pc' = [pc EXCEPT ![i] = "read"]
  /\ unread' = [unread EXCEPT ![i] = Shards]
  /\ agg' = [agg EXCEPT ![i] = NoVotes]
  /\ final' = [final EXCEPT ![i] = isFinal]

ListActive(i) ==
  /\ pc[i] \in {"idle", "failed"}
  /\ Active
  /\ pc' = [pc EXCEPT ![i] = "handle"]
  /\ seen' = [seen EXCEPT ![i] = row]
  /\ UNCHANGED <<storeVars, voteVars, result, at, unread, agg, final>>

(* handle: read the clock and decide on the row that was listed.             *)
Handle(i) ==
  /\ pc[i] = "handle"
  /\ \/ /\ ShouldOpenAt(seen[i].status, RowWindow(seen[i]), now)
        /\ pc' = [pc EXCEPT ![i] = "open"]
        /\ UNCHANGED <<seen, at, unread, agg, final>>
     \/ /\ ~ShouldOpenAt(seen[i].status, RowWindow(seen[i]), now)
        /\ seen[i].status # "open"
        /\ Rest(i)
     \/ /\ seen[i].status = "open"
        /\ at' = [at EXCEPT ![i] = now]
        /\ BeginTickOnce(i, FALSE)
        /\ UNCHANGED seen
  /\ UNCHANGED <<storeVars, voteVars, result>>

(* The scheduled opening; losing it to another writer is not an error.       *)
OpenOnSchedule(i) ==
  /\ pc[i] = "open"
  /\ Transition("open", seen[i].version)
  /\ Rest(i)
  /\ UNCHANGED <<now, admin, voteVars, result>>

(* Aggregate: one HGETALL per shard, in one pipeline but not in one instant. *)
ReadShard(i, s) ==
  /\ pc[i] = "read"
  /\ s \in unread[i]
  /\ agg' = [agg EXCEPT ![i] = AddShard(@, counter[s])]
  /\ unread' = [unread EXCEPT ![i] = @ \ {s}]
  /\ pc' = [pc EXCEPT ![i] = IF unread[i] = {s} THEN "get" ELSE "read"]
  /\ UNCHANGED <<storeVars, voteVars, result, seen, at, final>>

(* Mutant: the stored snapshot is added to the fresh one.                    *)
GetAndMergeAdds(i) ==
  /\ pc[i] = "get"
  /\ agg' = [agg EXCEPT ![i] = AddShard(@, result)]
  /\ pc' = [pc EXCEPT ![i] = "upsert"]
  /\ UNCHANGED <<storeVars, voteVars, result, seen, at, unread, final>>

(* results.Get and MergeMax with what it returned.                           *)
GetAndMerge(i) ==
  /\ pc[i] = "get"
  /\ agg' = [agg EXCEPT ![i] = MergeMax(@, result)]
  /\ pc' = [pc EXCEPT ![i] = "upsert"]
  /\ UNCHANGED <<storeVars, voteVars, result, seen, at, unread, final>>

(* Mutant: no grace period, the lag is asked for as soon as the window ends. *)
AfterUpsertNoGrace(i) ==
  IF final[i] THEN "close" ELSE IF at[i] < seen[i].closesAt THEN "idle" ELSE "lag"

(* What handle does after TickOnce.                                          *)
AfterUpsert(i) ==
  IF final[i] THEN "close" ELSE IF at[i] < seen[i].closesAt + Grace THEN "idle" ELSE "lag"

(* Mutant: the snapshot replaces the stored one.                             *)
GreatestOverwrites(a, b) == b

(* GREATEST in the ON CONFLICT clauses of Upsert.                            *)
Greatest(a, b) == MergeMax(a, b)

(* results.Upsert, one transaction.                                          *)
Upsert(i) ==
  /\ pc[i] = "upsert"
  /\ result' = Greatest(result, agg[i])
  /\ IF AfterUpsert(i) = "idle"
       THEN Rest(i)
       ELSE /\ pc' = [pc EXCEPT ![i] = AfterUpsert(i)]
            /\ UNCHANGED <<seen, at, unread, agg, final>>
  /\ UNCHANGED <<storeVars, voteVars>>

(* What a lag of zero means: the topic holds no vote, of any poll.           *)
Drained == backlog = {} /\ others.lag = 0

(* drained: Finalize only on a lag of zero.  kafkaLag.Lag adds up positive   *)
(* lags only, so a partition in error counts as drained.                     *)
ReadLag(i) ==
  /\ pc[i] = "lag"
  /\ \/ /\ Drained \/ ~LagComplete
        /\ BeginTickOnce(i, TRUE)
        /\ UNCHANGED <<seen, at>>
     \/ /\ ~Drained
        /\ Rest(i)
  /\ UNCHANGED <<storeVars, voteVars, result>>

(* Finalize's transition; a version conflict is not an error.                *)
CloseFinal(i) ==
  /\ pc[i] = "close"
  /\ Transition("closed", seen[i].version)
  /\ Rest(i)
  /\ UNCHANGED <<now, admin, voteVars, result>>

(* Redis, Postgres or Kafka fails, or the process dies: the tick is given up.*)
Fail(i) ==
  /\ pc[i] \notin {"idle", "failed"}
  /\ EndTick(i, "failed")
  /\ UNCHANGED <<storeVars, voteVars, result>>

-----------------------------------------------------------------------------
(* Service.Results: the row first ...                                        *)
ResultsRow ==
  /\ reader = "none"
  /\ reader' = row.status
  /\ UNCHANGED <<storeVars, voteVars, result, tickVars, shown>>

(* Mutant: the result is called final once the window is over.               *)
FinalIfOver(status) == now >= row.closesAt

(* Outcome.Final.                                                            *)
Final(status) == status \in {"closed", "archived"}

(* ... then the aggregate, whatever has been written since, unless the read  *)
(* fails.  Answers that are not final are not kept.                          *)
ResultsGet ==
  /\ reader # "none"
  /\ \/ Final(reader) /\ shown' = shown \cup {result}
     \/ UNCHANGED shown
  /\ reader' = "none"
  /\ UNCHANGED <<storeVars, voteVars, result, tickVars>>

SnapshotStep(i) ==
  \/ ListActive(i) \/ Handle(i) \/ OpenOnSchedule(i)
  \/ \E s \in Shards : ReadShard(i, s)
  \/ GetAndMerge(i) \/ Upsert(i) \/ ReadLag(i) \/ CloseFinal(i)

Next ==
  \/ /\ \/ (Tick \/ AdminStep) /\ UNCHANGED <<voteVars, result, tickVars>>
        \/ \E v \in Voters : Land(v) \/ Count(v) \/ Commit(v)
        \/ OtherLands \/ OtherCommits
        \/ \E i \in Snapshotters : SnapshotStep(i) \/ Fail(i)
     /\ UNCHANGED readVars
  \/ ResultsRow \/ ResultsGet

Spec == Init /\ [][Next]_vars

(* Time passes, the drain makes progress, every ticker fires and a request   *)
(* that began ends; an admin owes no request.                                *)
Fairness ==
  /\ WF_vars(Tick /\ UNCHANGED <<voteVars, result, tickVars, readVars>>)
  /\ WF_vars(AdminEnds /\ UNCHANGED <<voteVars, result, tickVars, readVars>>)
  /\ \A v \in Voters :
       WF_vars(Count(v) /\ UNCHANGED readVars) /\ WF_vars(Commit(v) /\ UNCHANGED readVars)
  /\ WF_vars(OtherCommits /\ UNCHANGED readVars)
  /\ \A i \in Snapshotters : WF_vars(SnapshotStep(i) /\ UNCHANGED readVars)

FairSpec == Spec /\ Fairness

-----------------------------------------------------------------------------
(* A closed poll shows the tally of every vote that landed, and nothing      *)
(* else: the last snapshot was read after the drain, no matter which of the  *)
(* instances wrote it, which failed half way and who moved closes_at.        *)
FinalIsExact ==
  row.status = "closed" => result = Tally(backlog \cup counted)

(* An answer that is called final is the exact result: the row is read       *)
(* before the aggregate, so a status of closed vouches for what is read next *)
(* (Results).                                                                *)
FinalAnswerIsExact == \A a \in shown : a = Tally(backlog \cup counted)

(* A snapshot never runs ahead of Redis: no interleaving of instances counts *)
(* a vote twice in Postgres (MergeMax and GREATEST).                         *)
NeverDoubleCounts ==
  LET real == Tally(counted) IN
  /\ result.ballots <= real.ballots
  /\ \A o \in Options : result.votes[o] <= real.votes[o]

(* No option exceeds the ballots, in any snapshot, although the shards were  *)
(* read one after the other and every counter is merged on its own: Percent  *)
(* stays within 100.                                                         *)
PercentWithinBounds == \A o \in Options : result.votes[o] <= result.ballots

(* The stored result never goes down, whichever instance writes last.        *)
ResultNeverShrinks ==
  [][/\ result'.ballots >= result.ballots
     /\ \A o \in Options : result'.votes[o] >= result.votes[o]]_vars

(* The row only moves along the edges of fsm.go although Transition does not *)
(* check them: the version is enough, for stale readers too.                 *)
StatusFollowsFSM ==
  [][row'.status # row.status => CanTransitionTo(row.status, row'.status)]_vars

(* Once failures cease every poll is opened on time and finalized, although  *)
(* the votes of other polls keep the lag above zero for a while.             *)
EventuallyClosed ==
  (<>[][\A i \in Snapshotters : ~Fail(i)]_vars) => <>[](row.status = "closed")

=============================================================================
