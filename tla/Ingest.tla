------------------------------- MODULE Ingest -------------------------------
(* The way of a vote through the API (internal/service/voting and            *)
(* internal/adapter/producer) to the decision of a consumer, with the poll   *)
(* configurations that both serve from a cache (internal/service/pollcfg)    *)
(* and the row behind them.  API processes stop, crash and start again.      *)
(* Time is bounded where the code bounds it: a cache is refreshed every      *)
(* interval, a body is read and a vote is sent within a timeout, a process   *)
(* that is told to stop waits for its requests up to a deadline, of which    *)
(* its debug server may use a part first.                                    *)
EXTENDS PollStore

CONSTANTS
  Requests,       \* vote requests, each of its own voter
  Kind,           \* Kind[r]: "valid", "badChoices" or "badVoter"
  Apis, Drains,   \* the API processes and the consumer processes
  MaxAge,         \* the refresh interval: the age of a cached configuration
  ReadTimeout,    \* READ_TIMEOUT: a request is read within it
  Pause,          \* bound: between the two clock reads of Accept
  SendTimeout,    \* KAFKA_PRODUCE_TIMEOUT
  DebugTime,      \* the longest request of the pprof server; 0 without one
  ShutdownGrace,  \* SHUTDOWN_GRACE
  Grace           \* SNAPSHOT_FINAL_GRACE

Nodes == Apis \cup Drains

(* How long after the end of the window a vote can still reach the topic.    *)
Late == MaxAge + DebugTime + ReadTimeout + Pause + SendTimeout

ASSUME IngestAssumption ==
  /\ Kind \in [Requests -> {"valid", "badChoices", "badVoter"}]
  /\ {MaxAge, ReadTimeout, Pause, SendTimeout, DebugTime, ShutdownGrace, Grace} \subseteq Nat
  /\ Apis \cap Drains = {}
  /\ Grace > Late
  /\ ShutdownGrace > DebugTime + ReadTimeout + Pause + SendTimeout

VARIABLES
  cache,      \* cache[n]: the row in n's snapshot, or NoRow
  refreshBy,  \* refreshBy[n]: when Cache.Run reads it again at the latest
  proc,       \* proc[n] of API n: [state, stopBy]
  req,        \* req[r]: [step, api, at, due], where its handler is
  answer,     \* answer[r]: the HTTP status, or 0
  topic,      \* the requests whose vote is on the Kafka topic
  counted, dropped,  \* what the consumers made of them
  committed   \* the requests whose offset is committed

ingestVars == <<cache, refreshBy, proc, req, answer, topic, counted, dropped, committed>>
vars == <<storeVars, ingestVars>>

NoRow == [status |-> "draft", version |-> 0, closesAt |-> 0]

NoApi == "none"
Up    == [state |-> "up", stopBy |-> 0]
Down  == [state |-> "down", stopBy |-> 0]

(* A request is lost when its process exits before it is answered, broken    *)
(* when its process crashes.                                                 *)
InFlight == {"received", "checked", "sending"}
Steps    == {"new", "answered", "lost", "broken"} \cup InFlight

TypeOK ==
  /\ now \in 1 .. MaxTime /\ row \in Row
  /\ admin \in [op : {"idle", "open", "close"}, version : Nat]
  /\ cache \in [Nodes -> Row]
  /\ refreshBy \in [Nodes -> Nat]
  /\ proc \in [Apis -> [state : {"up", "draining", "stopping", "down"}, stopBy : Nat]]
  /\ req \in [Requests -> [step : Steps, api : Apis \cup {NoApi}, at : 0 .. MaxTime, due : Nat]]
  /\ \A r \in Requests : req[r].step \in InFlight => proc[req[r].api].state # "down"
  /\ answer \in [Requests -> {0, 202, 400, 404, 409, 503}]
  /\ topic \subseteq Requests
  /\ counted \subseteq topic /\ dropped \subseteq topic
  /\ committed \subseteq counted \cup dropped

(* Every process warmed its cache when it started.                           *)
Init ==
  /\ StoreInit
  /\ cache = [n \in Nodes |-> row]
  /\ refreshBy = [n \in Nodes |-> now + MaxAge]
  /\ proc = [n \in Apis |-> Up]
  /\ req = [r \in Requests |-> [step |-> "new", api |-> NoApi, at |-> 0, due |-> 0]]
  /\ answer = [r \in Requests |-> 0]
  /\ topic = {} /\ counted = {} /\ dropped = {} /\ committed = {}

-----------------------------------------------------------------------------
(* The worker Cache.Run of a process ends with the signal.                   *)
Refreshing(n) == n \in Apis => proc[n] = Up

(* Time passes unless something is due now; the pprof server has finished    *)
(* its last request within DebugTime of the signal.                          *)
TimePasses ==
  /\ \A n \in Nodes : Refreshing(n) => now < refreshBy[n]
  /\ \A r \in Requests : req[r].step \in InFlight => now < req[r].due
  /\ \A n \in Apis : proc[n].state = "draining" => now + ShutdownGrace < proc[n].stopBy + DebugTime
  /\ \A n \in Apis : proc[n].state = "stopping" => now < proc[n].stopBy + SendTimeout
  /\ Tick
  /\ UNCHANGED ingestVars

Admin == AdminStep /\ UNCHANGED ingestVars

(* A snapshotter opens the poll on schedule.                                 *)
OpenOnSchedule ==
  /\ ShouldOpenAt(row.status, RowWindow(row), now)
  /\ Transition("open", row.version)
  /\ UNCHANGED <<now, admin, ingestVars>>

(* Mutant: the poll is finalized as soon as its window is over.              *)
FinalizeNoGrace ==
  /\ row.status = "open"
  /\ now >= row.closesAt
  /\ topic = committed
  /\ Transition("closed", row.version)
  /\ UNCHANGED <<now, admin, ingestVars>>

(* Mutant: finalization is tried once, at the end of the grace period.       *)
FinalizeOnce ==
  /\ row.status = "open"
  /\ now = row.closesAt + Grace
  /\ topic = committed
  /\ Transition("closed", row.version)
  /\ UNCHANGED <<now, admin, ingestVars>>

(* A snapshotter finalizes it: after the grace period, with no lag.          *)
Finalize ==
  /\ row.status = "open"
  /\ now >= row.closesAt + Grace
  /\ topic = committed
  /\ Transition("closed", row.version)
  /\ UNCHANGED <<now, admin, ingestVars>>

(* Cache.refresh.                                                            *)
Refresh(n) ==
  /\ Refreshing(n)
  /\ cache' = [cache EXCEPT ![n] = IF Active THEN row ELSE NoRow]
  /\ refreshBy' = [refreshBy EXCEPT ![n] = now + MaxAge]
  /\ UNCHANGED <<storeVars, proc, req, answer, topic, counted, dropped, committed>>

-----------------------------------------------------------------------------
(* The handler answers; a send that failed may still succeed until it is due.*)
Answer(r, code) ==
  /\ answer' = [answer EXCEPT ![r] = code]
  /\ req' = [req EXCEPT ![r] = [step |-> "answered", api |-> NoApi, at |-> @.at,
                                due |-> IF code = 503 THEN @.due ELSE 0]]

(* ChoiceRules.Validate and DeriveVoterID; PollRules has the former.         *)
ValidChoices(r) == Kind[r] # "badChoices"
DerivesVoter(r) == Kind[r] # "badVoter"

Pass == 0

(* Mutant: the status alone decides.                                         *)
VerdictByStatus(r, c, t) ==
  IF c = NoRow                                       THEN 404
  ELSE IF ~ValidChoices(r)                           THEN 400
  ELSE IF c.status # "open"                          THEN 409
  ELSE IF ~DerivesVoter(r)                           THEN 400
  ELSE Pass

(* The early returns of Accept, for r with configuration c at time t; Pass   *)
(* when there is none.                                                       *)
Verdict(r, c, t) ==
  IF c = NoRow                                       THEN 404
  ELSE IF ~ValidChoices(r)                           THEN 400
  ELSE IF ~IsOpenAt(c.status, RowWindow(c), t)       THEN 409
  ELSE IF ~DerivesVoter(r)                           THEN 400
  ELSE Pass

(* A request reaches API n, whose listener is open; its handler reads the    *)
(* body.                                                                     *)
Receive(n, r) ==
  /\ req[r].step = "new"
  /\ proc[n] = Up \/ proc[n].state = "draining"
  /\ req' = [req EXCEPT ![r] = [step |-> "received", api |-> n, at |-> 0, due |-> now + ReadTimeout]]
  /\ UNCHANGED <<storeVars, cache, refreshBy, proc, answer, topic, counted, dropped, committed>>

(* Lookup, Validate, the window at the first clock read, DeriveVoterID.      *)
Check(r) ==
  /\ req[r].step = "received"
  /\ LET verdict == Verdict(r, cache[req[r].api], now) IN
     IF verdict # Pass
       THEN Answer(r, verdict)
       ELSE /\ req' = [req EXCEPT ![r] = [step |-> "checked", api |-> @.api, at |-> @.at, due |-> now + Pause]]
            /\ UNCHANGED answer
  /\ UNCHANGED <<storeVars, cache, refreshBy, proc, topic, counted, dropped, committed>>

(* ProducedAt is the second clock read; Send starts with its timeout.        *)
Stamp(r) ==
  /\ req[r].step = "checked"
  /\ req' = [req EXCEPT ![r] = [step |-> "sending", api |-> @.api, at |-> now, due |-> now + SendTimeout]]
  /\ UNCHANGED <<storeVars, cache, refreshBy, proc, answer, topic, counted, dropped, committed>>

(* The broker appends the record, perhaps after the client gave up waiting   *)
(* or is gone.                                                               *)
BrokerAppends(r) ==
  /\ \/ req[r].step \in {"sending", "lost", "broken"}
     \/ req[r].step = "answered" /\ answer[r] = 503
  /\ req[r].at # 0 /\ now <= req[r].due
  /\ r \notin topic
  /\ topic' = topic \cup {r}
  /\ UNCHANGED <<storeVars, cache, refreshBy, proc, req, answer, counted, dropped, committed>>

(* ProduceSync returns no error only when all in-sync replicas have it.      *)
Ack(r) ==
  /\ req[r].step = "sending"
  /\ r \in topic
  /\ Answer(r, 202)
  /\ UNCHANGED <<storeVars, cache, refreshBy, proc, topic, counted, dropped, committed>>

(* The timeout, a broker error or a client that went away: the record may be *)
(* on the topic or not.                                                      *)
SendFails(r) ==
  /\ req[r].step = "sending"
  /\ Answer(r, 503)
  /\ UNCHANGED <<storeVars, cache, refreshBy, proc, topic, counted, dropped, committed>>

-----------------------------------------------------------------------------
(* SIGTERM: the gate drops readiness, the workers end and the deadline of    *)
(* both servers starts to run.  The listener stays open while the pprof      *)
(* server is shut down.                                                      *)
Sigterm(n) ==
  /\ proc[n] = Up
  /\ proc' = [proc EXCEPT ![n] = [state |-> "draining", stopBy |-> now + ShutdownGrace]]
  /\ refreshBy' = [refreshBy EXCEPT ![n] = 0]
  /\ UNCHANGED <<storeVars, cache, req, answer, topic, counted, dropped, committed>>

(* The pprof server has shut down; srv.Shutdown closes the listener and      *)
(* waits, up to the same deadline.                                           *)
CloseListener(n) ==
  /\ proc[n].state = "draining"
  /\ proc' = [proc EXCEPT ![n].state = "stopping"]
  /\ UNCHANGED <<storeVars, cache, refreshBy, req, answer, topic, counted, dropped, committed>>

Handling(n) == { r \in Requests : req[r].step \in InFlight /\ req[r].api = n }

(* The process is gone, and its requests end without an answer.              *)
Gone(n, step) ==
  /\ proc' = [proc EXCEPT ![n] = Down]
  /\ req' = [r \in Requests |-> IF r \in Handling(n) THEN [req[r] EXCEPT !.step = step] ELSE req[r]]
  /\ cache' = [cache EXCEPT ![n] = NoRow]
  /\ refreshBy' = [refreshBy EXCEPT ![n] = 0]
  /\ UNCHANGED <<storeVars, answer, topic, counted, dropped, committed>>

(* Mutant: Shutdown gets the context that the signal has cancelled.          *)
ExitAtOnce(n) ==
  /\ proc[n].state = "stopping"
  /\ Gone(n, "lost")

(* Shutdown returns when every handler has, or at the deadline; then the     *)
(* producer is flushed and closed and the process exits.                     *)
Exit(n) ==
  /\ proc[n].state = "stopping"
  /\ Handling(n) = {} \/ now >= proc[n].stopBy
  /\ Gone(n, "lost")

Crash(n) ==
  /\ proc[n] # Down
  /\ Gone(n, "broken")

(* A new process, which warms its cache before it listens.                   *)
Start(n) ==
  /\ proc[n] = Down
  /\ proc' = [proc EXCEPT ![n] = Up]
  /\ cache' = [cache EXCEPT ![n] = IF Active THEN row ELSE NoRow]
  /\ refreshBy' = [refreshBy EXCEPT ![n] = now + MaxAge]
  /\ UNCHANGED <<storeVars, req, answer, topic, counted, dropped, committed>>

-----------------------------------------------------------------------------
(* Mutant: the consumer asks whether the poll is open now.                   *)
CountIfOpenNow(d, r) ==
  /\ r \in topic \ committed
  /\ cache[d] # NoRow
  /\ IF IsOpenAt(cache[d].status, RowWindow(cache[d]), now)
       THEN counted' = counted \cup {r} /\ UNCHANGED dropped
       ELSE dropped' = dropped \cup {r} /\ UNCHANGED counted
  /\ UNCHANGED <<storeVars, cache, refreshBy, proc, req, answer, topic, committed>>

(* Count of consumer d: the window it has cached decides, by the time the    *)
(* API put on the vote and whatever the status is.  Without a configuration  *)
(* it waits, and the lookup budget outlasts a refresh.  A record whose       *)
(* offset is not committed may be delivered, and decided, again.             *)
Count(d, r) ==
  /\ r \in topic \ committed
  /\ cache[d] # NoRow
  /\ IF Contains(RowWindow(cache[d]), req[r].at)
       THEN counted' = counted \cup {r} /\ UNCHANGED dropped
       ELSE dropped' = dropped \cup {r} /\ UNCHANGED counted
  /\ UNCHANGED <<storeVars, cache, refreshBy, proc, req, answer, topic, committed>>

(* Mutant: offsets are committed as soon as they are polled.                 *)
CommitPolled(r) ==
  /\ r \in topic \ committed
  /\ committed' = committed \cup {r}
  /\ UNCHANGED <<storeVars, cache, refreshBy, proc, req, answer, topic, counted, dropped>>

(* The offset is committed once the task of the record has ended.            *)
Commit(r) ==
  /\ r \in (counted \cup dropped) \ committed
  /\ committed' = committed \cup {r}
  /\ UNCHANGED <<storeVars, cache, refreshBy, proc, req, answer, topic, counted, dropped>>

-----------------------------------------------------------------------------
RequestStep(r) ==
  \/ \E n \in Apis : Receive(n, r)
  \/ Check(r) \/ Stamp(r) \/ BrokerAppends(r) \/ Ack(r) \/ SendFails(r)

Next ==
  \/ TimePasses \/ Admin \/ OpenOnSchedule \/ Finalize
  \/ \E n \in Nodes : Refresh(n)
  \/ \E n \in Apis : Sigterm(n) \/ CloseListener(n) \/ Exit(n) \/ Crash(n) \/ Start(n)
  \/ \E r \in Requests : RequestStep(r) \/ Commit(r) \/ \E d \in Drains : Count(d, r)

Spec == Init /\ [][Next]_vars

(* The clock runs, a refresh, a request in progress and a shutdown end, the  *)
(* topic is consumed and the snapshotter ticks.                              *)
Fairness ==
  /\ WF_vars(TimePasses) /\ WF_vars(AdminEnds /\ UNCHANGED ingestVars)
  /\ WF_vars(OpenOnSchedule) /\ WF_vars(Finalize)
  /\ \A n \in Nodes : WF_vars(Refresh(n))
  /\ \A n \in Apis : WF_vars(CloseListener(n)) /\ WF_vars(Exit(n))
  /\ \A r \in Requests :
       /\ WF_vars(Check(r)) /\ WF_vars(Stamp(r)) /\ WF_vars(Ack(r) \/ SendFails(r))
       /\ WF_vars(\E d \in Drains : Count(d, r)) /\ WF_vars(Commit(r))

FairSpec == Spec /\ Fairness

-----------------------------------------------------------------------------
(* A vote that both the announced and the stored window contain is counted,  *)
(* not dropped, whichever consumer decides and however old its cache is.     *)
(* (Window.Contains in Count; no consumer asks for the status).              *)
InWindowIsCounted ==
  \A r \in dropped :
    \/ ~Contains([opensAt |-> OpensAt, closesAt |-> ClosesAt], req[r].at)
    \/ ~Contains(RowWindow(row), req[r].at)

(* What src/README.md says of the answer 202: the consumer will count the    *)
(* vote.  Accept reads the clock twice, so a vote that was checked inside    *)
(* the window can carry a stamp after it, and Count drops it; run            *)
(* accepted_dropped has the trace.                                           *)
AcceptedIsCounted == \A r \in committed : answer[r] = 202 => r \in counted

(* No vote reaches the topic after its poll is finalized: the grace period   *)
(* outlasts the age of a cached window, the time a process that has been     *)
(* told to stop takes votes without a refresh, and the timeouts of a request.*)
NoVoteAfterFinal == [][row.status = "closed" => topic' = topic]_vars

(* A vote reaches the topic at most Late after the end of its poll's window, *)
(* also when an admin has just moved that end.                               *)
LandsInTime == [][topic' # topic => now <= row.closesAt + Late]_vars

(* A process that is told to stop answers every request it has begun, those  *)
(* it accepts while the pprof server shuts down included: what that leaves   *)
(* of the one deadline outlasts the timeouts of a handler, and the context   *)
(* of the handlers is not the one the signal cancels (serve, newServer).     *)
NoRequestLost == \A r \in Requests : req[r].step # "lost"

(* Every vote on the topic is decided and committed, and the poll finalized  *)
(* afterwards, although votes are delivered again (Consumer.Run, finalize).  *)
TopicIsDecided ==
  <>[](row.status = "closed" /\ topic = committed)

=============================================================================
