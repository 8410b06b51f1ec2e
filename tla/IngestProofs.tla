----------------------------- MODULE IngestProofs -----------------------------
(* Theorems about Ingest, for any number of requests, API processes and      *)
(* consumers and for all intervals and timeouts that meet IngestAssumption.  *)
EXTENDS Ingest, PollStoreProofs

-----------------------------------------------------------------------------
(* The inductive invariant.  The end of the window: an admin moves it once   *)
(* at most, to a time that is past, and a closed poll has waited since.      *)
EndInv ==
  /\ row.closesAt = ClosesAt \/ row.closesAt <= now
  /\ admin.op = "close" /\ admin.version = row.version => row.closesAt = ClosesAt
  /\ row.status = "closed" => now >= row.closesAt + Grace

(* A cached window ends where the row's does or where it did.  A cache that  *)
(* was left behind is refreshed MaxAge after the move at the latest, or its  *)
(* process was told to stop by then and takes requests DebugTime longer.     *)
Stale(n) == cache[n] # NoRow /\ cache[n].closesAt # row.closesAt

DrainAt(n) ==
  proc[n].state = "draining" =>
    /\ now + ShutdownGrace <= proc[n].stopBy + DebugTime
    /\ proc[n].stopBy <= now + ShutdownGrace
    /\ Stale(n) => proc[n].stopBy <= row.closesAt + MaxAge + ShutdownGrace

NodeAt(n) ==
  /\ cache[n] = NoRow \/ cache[n].closesAt \in {ClosesAt, row.closesAt}
  /\ Refreshing(n) => now <= refreshBy[n] /\ refreshBy[n] <= now + MaxAge
  /\ Refreshing(n) /\ Stale(n) => refreshBy[n] <= row.closesAt + MaxAge
  /\ n \in Apis => DrainAt(n)

NodeInv == \A n \in Nodes : NodeAt(n)

(* What a handler has left, in steps: every deadline is counted from the one *)
(* before, the first from the refresh of a cache, and all of them end before *)
(* the process stops waiting.                                                *)
Alive(q) ==
  q.step \in InFlight => q.api \in Apis /\ proc[q.api].state # "down" /\ now <= q.due

Deadlines(q) ==
  /\ q.step = "received" =>
       /\ q.at = 0 /\ q.due <= now + ReadTimeout
       /\ Stale(q.api) => q.due <= row.closesAt + MaxAge + DebugTime + ReadTimeout
  /\ q.step = "checked" =>
       /\ q.at = 0 /\ q.due <= now + Pause
       /\ q.due <= row.closesAt + MaxAge + DebugTime + ReadTimeout + Pause
  /\ q.step = "sending" => q.at # 0
  /\ q.at # 0 => q.due <= now + SendTimeout /\ q.due <= row.closesAt + Late

Waited(q) ==
  q.step \in InFlight /\ proc[q.api].state \in {"draining", "stopping"} =>
    LET stop == proc[q.api].stopBy + DebugTime IN
    /\ q.step = "received" => q.due + ShutdownGrace <= stop + ReadTimeout
    /\ q.step = "checked" => q.due + ShutdownGrace <= stop + ReadTimeout + Pause
    /\ q.step = "sending" => q.due + ShutdownGrace <= stop + ReadTimeout + Pause + SendTimeout

RequestAt(r) ==
  /\ Alive(req[r]) /\ Deadlines(req[r]) /\ Waited(req[r])
  /\ req[r].step # "lost"
  /\ r \in topic => req[r].step \notin {"new", "received", "checked"}

RequestInv == \A r \in Requests : RequestAt(r)

IngestInv ==
  AdminInv /\ TypeOK /\ EndInv /\ NodeInv /\ RequestInv /\ InWindowIsCounted

-----------------------------------------------------------------------------
(* Types.                                                                    *)
Request == [step : Steps, api : Apis \cup {NoApi}, at : 0 .. MaxTime, due : Nat]

LEMMA Constants ==
  /\ MaxAge \in Nat /\ ReadTimeout \in Nat /\ Pause \in Nat /\ SendTimeout \in Nat
  /\ DebugTime \in Nat /\ ShutdownGrace \in Nat /\ Grace \in Nat
  /\ Late = MaxAge + DebugTime + ReadTimeout + Pause + SendTimeout
  /\ Grace > Late /\ ShutdownGrace > DebugTime + ReadTimeout + Pause + SendTimeout
  /\ ClosesAt \in Nat /\ OpensAt \in Nat /\ MaxTime \in Nat
BY IngestAssumption, WindowAssumption DEF Late

LEMMA Types ==
  ASSUME TypeOK
  PROVE  /\ now \in Nat /\ now >= 1 /\ row \in Row /\ row.closesAt \in Nat /\ row.version \in Nat
         /\ req \in [Requests -> Request]
         /\ \A r \in Requests : /\ req[r] \in Request /\ req[r].due \in Nat
                                /\ req[r].at \in Nat /\ req[r].step \in Steps
         /\ \A n \in Nodes : /\ refreshBy[n] \in Nat /\ cache[n] \in Row
                             /\ cache[n].closesAt \in Nat
         /\ \A n \in Apis : proc[n].stopBy \in Nat
<1>1. /\ now \in Nat /\ now >= 1 /\ row \in Row /\ row.closesAt \in Nat /\ row.version \in Nat
  BY Constants DEF TypeOK, Row
<1>2. req \in [Requests -> Request]
  BY DEF TypeOK, Request
<1>3. \A r \in Requests : /\ req[r] \in Request /\ req[r].due \in Nat
                         /\ req[r].at \in Nat /\ req[r].step \in Steps
  BY <1>2, Constants DEF Request
<1>4. \A n \in Nodes : /\ refreshBy[n] \in Nat /\ cache[n] \in Row
                      /\ cache[n].closesAt \in Nat
  BY DEF TypeOK, Row
<1>5. \A n \in Apis : proc[n].stopBy \in Nat
  BY DEF TypeOK
<1> QED
  BY <1>1, <1>2, <1>3, <1>4, <1>5

-----------------------------------------------------------------------------
(* A write of the row moves the end of the window at most once.              *)
RowMoves == row.closesAt = ClosesAt /\ row'.closesAt = now

LEMMA TransitionKeepsEnd ==
  ASSUME TypeOK, NEW to, NEW version, Transition(to, version)
  PROVE  row'.closesAt = row.closesAt
<1>1. row \in Row
  BY Types
<1>2. row' = row \/ row' = NextRow(row, to, row.closesAt)
  BY <1>1, RowUpdates DEF Transition
<1> QED
  BY <1>2 DEF NextRow

LEMMA WriteStep ==
  ASSUME IngestInv, Admin \/ OpenOnSchedule \/ Finalize
  PROVE  /\ RowStep /\ AdminInv' /\ EndInv' /\ now' = now /\ UNCHANGED ingestVars
         /\ row'.closesAt = row.closesAt \/ RowMoves
<1>0. AdminInv /\ TypeOK /\ EndInv /\ row \in Row
  BY Types DEF IngestInv
<1>1. CASE Admin
  <2>0. AdminStep /\ UNCHANGED ingestVars
    BY <1>1 DEF Admin
  <2>1. RowStep /\ now' = now /\ AdminInv' /\ (Opens \/ Moves \/ row' = row)
    BY <1>0, <2>0, AdminRowStep, AdminKeepsAdminInv DEF RowStep
  <2>2. row'.closesAt = row.closesAt \/ RowMoves
    <3>1. CASE CloseWrite
      <4>1. row' = row \/ (admin.version = row.version /\ row' = NextRow(row, row.status, now))
        BY <1>0, <3>1, RowUpdates DEF CloseWrite, CloseNow
      <4> QED
        BY <1>0, <3>1, <4>1 DEF CloseWrite, EndInv, RowMoves, NextRow
    <3>2. CASE OpenWrite
      BY <1>0, <3>2, TransitionKeepsEnd DEF OpenWrite
    <3> QED
      BY <2>0, <3>1, <3>2 DEF AdminStep, AdminEnds, OpenRead, CloseRead, AdminFails
  <2>3. row'.closesAt = ClosesAt \/ row'.closesAt <= now
    BY <1>0, <2>2, Types DEF EndInv, RowMoves
  <2>4. admin'.op = "close" => row'.closesAt = ClosesAt
    <3>1. CASE CloseRead
      <4>1. row' = row /\ now < row.closesAt
        BY <3>1 DEF CloseRead, IsOpenAt, Contains, RowWindow
      <4> QED
        BY <1>0, <4>1, Types DEF EndInv
    <3>2. admin'.op = "close" => CloseRead
      BY <2>0 DEF AdminStep, AdminEnds, OpenRead, OpenWrite, CloseWrite, AdminFails, Idle
    <3> QED
      BY <3>1, <3>2
  <2>5. row'.status = "closed" => now >= row'.closesAt + Grace
    BY <1>0, <2>1 DEF Opens, Moves, NextRow, EndInv
  <2> QED
    BY <2>0, <2>1, <2>2, <2>3, <2>4, <2>5 DEF EndInv
<1>2. CASE OpenOnSchedule \/ Finalize
  <2>1. now' = now /\ admin' = admin /\ UNCHANGED ingestVars
    BY <1>2 DEF OpenOnSchedule, Finalize
  <2>2. row'.closesAt = row.closesAt
    BY <1>0, <1>2, TransitionKeepsEnd DEF OpenOnSchedule, Finalize
  <2>3. RowStep
    <3>1. CASE OpenOnSchedule
      BY <1>0, <3>1, TransitionRowStep DEF OpenOnSchedule, ShouldOpenAt
    <3>2. CASE Finalize
      BY <1>0, <3>2, TransitionRowStep DEF Finalize
    <3> QED
      BY <1>2, <3>1, <3>2
  <2>4. AdminInv'
    BY <1>0, <2>1, <2>3, OthersKeepAdminInv
  <2>5. row'.status = "closed" => now >= row'.closesAt + Grace
    <3>1. CASE OpenOnSchedule
      <4>1. row' = row \/ row' = NextRow(row, "open", row.closesAt)
        BY <1>0, <3>1, RowUpdates DEF OpenOnSchedule, Transition
      <4> QED
        BY <1>0, <4>1 DEF EndInv, NextRow
    <3>2. CASE Finalize
      BY <2>2, <3>2 DEF Finalize
    <3> QED
      BY <1>2, <3>1, <3>2
  <2>6. admin.version = row'.version => admin.version = row.version
    BY <1>0, <2>3, VersionNamesRow DEF AdminInv, StoreType, AdminRequest, Row
  <2>7. EndInv'
    BY <1>0, <2>1, <2>2, <2>5, <2>6 DEF EndInv
  <2> QED
    BY <2>1, <2>2, <2>3, <2>4, <2>7
<1> QED
  BY <1>1, <1>2

(* When the end moves, every deadline is counted from the moment it moves.   *)
LEMMA WriteKeeps ==
  ASSUME IngestInv, Admin \/ OpenOnSchedule \/ Finalize
  PROVE  IngestInv'
<1>0. /\ TypeOK /\ EndInv /\ NodeInv /\ RequestInv /\ InWindowIsCounted
  BY DEF IngestInv
<1>1. /\ AdminInv' /\ EndInv' /\ now' = now
      /\ row'.closesAt = row.closesAt \/ RowMoves
  BY WriteStep
<1>2. UNCHANGED <<cache, refreshBy, proc, req, answer, topic, counted, dropped, committed>>
  BY WriteStep DEF ingestVars
<1>3. TypeOK'
  <2>1. /\ now' \in 1 .. MaxTime /\ row' \in Row
        /\ admin' \in [op : {"idle", "open", "close"}, version : Nat]
    BY <1>1 DEF AdminInv, StoreType, AdminRequest
  <2> QED
    BY <1>0, <1>2, <2>1 DEF TypeOK, Nodes, Steps, InFlight, NoApi, Row, Status
<1>4. CASE row'.closesAt = row.closesAt
  <2>1. NodeInv'
    BY <1>0, <1>1, <1>2, <1>4 DEF NodeInv, NodeAt, DrainAt, Refreshing, Stale, Nodes, NoRow, Up
  <2>2. RequestInv'
    BY <1>0, <1>1, <1>2, <1>4
       DEF RequestInv, RequestAt, Alive, Deadlines, Waited, Stale, InFlight, Late, NoRow
  <2>3. InWindowIsCounted'
    BY <1>0, <1>1, <1>2, <1>4 DEF InWindowIsCounted, RowWindow, Contains
  <2> QED
    BY <1>1, <1>3, <2>1, <2>2, <2>3 DEF IngestInv
<1>5. CASE RowMoves
  <2>0. row.closesAt = ClosesAt /\ row'.closesAt = now
    BY <1>5 DEF RowMoves
  <2>1. ASSUME NEW n \in Nodes PROVE NodeAt(n)'
    <3>1. NodeAt(n)
      BY <1>0 DEF NodeInv
    <3>2. cache'[n] = NoRow \/ cache'[n].closesAt \in {ClosesAt, row'.closesAt}
      BY <1>2, <2>0, <3>1 DEF NodeAt
    <3>3. Refreshing(n) => now <= refreshBy[n] /\ refreshBy[n] <= now + MaxAge
      BY <3>1 DEF NodeAt
    <3>4. n \in Apis => DrainAt(n)'
      <4>1. n \in Apis => DrainAt(n) /\ proc[n].stopBy \in Nat
        BY <1>0, <3>1, Types DEF NodeAt
      <4>2. now \in Nat
        BY <1>0, Types
      <4> QED
        BY <1>1, <1>2, <2>0, <4>1, <4>2, Constants DEF DrainAt
    <3> QED
      BY <1>1, <1>2, <2>0, <3>2, <3>3, <3>4 DEF NodeAt, Refreshing, NoRow, Up
  <2>2. ASSUME NEW r \in Requests PROVE RequestAt(r)'
    <3>0. RequestAt(r) /\ req[r].due \in Nat /\ now \in Nat
      BY <1>0, Types DEF RequestInv
    <3>1. Alive(req[r])' /\ Waited(req[r])'
      BY <1>1, <1>2, <3>0 DEF RequestAt, Alive, Waited, InFlight
    <3>2. Deadlines(req[r])'
      BY <1>1, <1>2, <2>0, <3>0, Constants DEF RequestAt, Deadlines
    <3> QED
      BY <1>2, <3>0, <3>1, <3>2 DEF RequestAt
  <2>3. InWindowIsCounted'
    BY <1>0, <1>1, <1>2, <2>0 DEF InWindowIsCounted, RowWindow, Contains
  <2> QED
    BY <1>1, <1>3, <2>1, <2>2, <2>3 DEF IngestInv, NodeInv, RequestInv, Nodes
<1> QED
  BY <1>1, <1>4, <1>5

(* Time does not pass a deadline.                                            *)
LEMMA TimeKeeps ==
  ASSUME IngestInv, TimePasses
  PROVE  IngestInv'
<1>0. /\ TypeOK /\ EndInv /\ NodeInv /\ RequestInv /\ InWindowIsCounted /\ AdminInv
      /\ now \in Nat /\ row.closesAt \in Nat
  BY Types DEF IngestInv
<1>1. /\ Tick /\ now' = now + 1 /\ row' = row /\ admin' = admin /\ now < MaxTime
      /\ \A n \in Nodes : Refreshing(n) => now < refreshBy[n]
      /\ \A r \in Requests : req[r].step \in InFlight => now < req[r].due
      /\ \A n \in Apis : proc[n].state = "draining" =>
                           now + ShutdownGrace < proc[n].stopBy + DebugTime
  BY DEF TimePasses, Tick
<1>2. UNCHANGED <<cache, refreshBy, proc, req, answer, topic, counted, dropped, committed>>
  BY DEF TimePasses, ingestVars
<1>3. AdminInv'
  BY <1>0, <1>1, TickKeepsAdminInv
<1>4. TypeOK'
  <2>1. now' \in 1 .. MaxTime
    BY <1>3 DEF AdminInv, StoreType
  <2> QED
    BY <1>0, <1>1, <1>2, <2>1 DEF TypeOK, Nodes, Steps, InFlight, NoApi, Row, Status
<1>5. EndInv'
  BY <1>0, <1>1, Constants DEF EndInv
<1>6. ASSUME NEW n \in Nodes PROVE NodeAt(n)'
  <2>1. NodeAt(n) /\ refreshBy[n] \in Nat
    BY <1>0, Types DEF NodeInv
  <2>2. n \in Apis => DrainAt(n)'
    <3>1. n \in Apis => DrainAt(n) /\ proc[n].stopBy \in Nat
      BY <1>0, <2>1, Types DEF NodeAt
    <3> QED
      BY <1>0, <1>1, <1>2, <3>1, Constants DEF DrainAt, Stale, NoRow
  <2> QED
    BY <1>0, <1>1, <1>2, <2>1, <2>2, Constants DEF NodeAt, Refreshing, Stale, NoRow, Up
<1>7. ASSUME NEW r \in Requests PROVE RequestAt(r)'
  <2>0. RequestAt(r) /\ req[r].due \in Nat
    BY <1>0, Types DEF RequestInv
  <2>1. Alive(req[r])'
    BY <1>0, <1>1, <1>2, <2>0 DEF RequestAt, Alive, InFlight
  <2>2. Deadlines(req[r])'
    BY <1>0, <1>1, <1>2, <2>0, Constants DEF RequestAt, Deadlines, Stale, NoRow
  <2>3. Waited(req[r])'
    BY <1>1, <1>2, <2>0 DEF RequestAt, Waited, InFlight
  <2> QED
    BY <1>2, <2>0, <2>1, <2>2, <2>3 DEF RequestAt
<1>8. InWindowIsCounted'
  BY <1>0, <1>1, <1>2 DEF InWindowIsCounted, RowWindow, Contains
<1> QED
  BY <1>3, <1>4, <1>5, <1>6, <1>7, <1>8 DEF IngestInv, NodeInv, RequestInv, Nodes

-----------------------------------------------------------------------------
(* The steps of requests, consumers and processes leave the row alone.       *)
LEMMA StoreKept ==
  ASSUME IngestInv, UNCHANGED storeVars
  PROVE  AdminInv' /\ EndInv' /\ row' = row /\ now' = now /\ admin' = admin
<1>1. row' = row /\ now' = now /\ admin' = admin
  BY DEF storeVars
<1>2. AdminInv'
  BY <1>1, OthersKeepAdminInv DEF IngestInv, RowStep
<1>3. EndInv'
  BY <1>1 DEF IngestInv, EndInv
<1> QED
  BY <1>1, <1>2, <1>3

(* One request moves on, and its new record is as it should be.              *)
LEMMA OneRequestKeeps ==
  ASSUME IngestInv, NEW r \in Requests, NEW q \in Request,
         UNCHANGED <<storeVars, cache, refreshBy, proc, topic, counted, dropped, committed>>,
         req' = [req EXCEPT ![r] = q],
         answer' \in [Requests -> {0, 202, 400, 404, 409, 503}],
         Alive(q), Deadlines(q), Waited(q), q.step # "lost",
         r \in topic => q.at = req[r].at /\ q.step \notin {"new", "received", "checked"}
  PROVE  IngestInv'
<1>0. /\ TypeOK /\ NodeInv /\ RequestInv /\ InWindowIsCounted /\ req \in [Requests -> Request]
  BY Types DEF IngestInv
<1>1. AdminInv' /\ EndInv' /\ row' = row /\ now' = now /\ admin' = admin
  BY StoreKept
<1>2. /\ req' \in [Requests -> Request] /\ req'[r] = q
      /\ \A s \in Requests \ {r} : req'[s] = req[s]
  BY <1>0
<1>3. ASSUME NEW s \in Requests PROVE RequestAt(s)'
  <2>1. CASE s = r
    BY <1>1, <1>2, <2>1 DEF RequestAt, Alive, Deadlines, Waited, InFlight, Stale, NoRow, Late
  <2>2. CASE s # r
    <3>1. RequestAt(s) /\ req'[s] = req[s]
      BY <1>0, <1>2, <2>2 DEF RequestInv
    <3> QED
      BY <1>1, <3>1 DEF RequestAt, Alive, Deadlines, Waited, InFlight, Stale, NoRow, Late
  <2> QED
    BY <2>1, <2>2
<1>4. NodeInv'
  BY <1>0, <1>1 DEF NodeInv, NodeAt, DrainAt, Refreshing, Stale, Nodes, NoRow, Up
<1>5. InWindowIsCounted'
  <2>1. dropped \subseteq topic /\ dropped \subseteq Requests
    BY <1>0 DEF TypeOK
  <2>2. \A s \in dropped : req'[s].at = req[s].at
    BY <1>2, <2>1
  <2> QED
    BY <1>0, <1>1, <2>1, <2>2 DEF InWindowIsCounted, RowWindow, Contains
<1>6. TypeOK'
  <2>1. \A s \in Requests : req'[s].step \in InFlight => proc'[req'[s].api].state # "down"
    BY <1>3 DEF RequestAt, Alive, InFlight
  <2> QED
    BY <1>0, <1>1, <1>2, <2>1 DEF TypeOK, Request, Nodes, Steps, InFlight, NoApi, Row, Status
<1> QED
  BY <1>1, <1>3, <1>4, <1>5, <1>6 DEF IngestInv, RequestInv

LEMMA AnswerKeeps ==
  ASSUME IngestInv, NEW r \in Requests, NEW code \in {202, 400, 404, 409, 503}, Answer(r, code),
         UNCHANGED <<storeVars, cache, refreshBy, proc, topic, counted, dropped, committed>>,
         r \in topic => req[r].step = "sending"
  PROVE  IngestInv'
<1> DEFINE q == [step |-> "answered", api |-> NoApi, at |-> req[r].at,
                 due |-> IF code = 503 THEN req[r].due ELSE 0]
<1>0. /\ RequestAt(r) /\ req \in [Requests -> Request] /\ req[r] \in Request
      /\ req[r].due \in Nat /\ req[r].at \in 0 .. MaxTime /\ now \in Nat /\ row.closesAt \in Nat
      /\ answer \in [Requests -> {0, 202, 400, 404, 409, 503}]
  BY Types DEF IngestInv, RequestInv, TypeOK
<1>1. req' = [req EXCEPT ![r] = q]
  BY DEF Answer
<1>2. answer' \in [Requests -> {0, 202, 400, 404, 409, 503}]
  BY <1>0 DEF Answer
<1>3. q \in Request
  BY <1>0 DEF Request, Steps
<1>4. Alive(q) /\ Waited(q) /\ q.step \notin {"lost", "new", "received", "checked"}
  BY DEF Alive, Waited, InFlight
<1>5. Deadlines(q)
  BY <1>0, Constants DEF RequestAt, Deadlines
<1>6. q.at = req[r].at
  OBVIOUS
<1> HIDE DEF q
<1> QED
  BY <1>1, <1>2, <1>3, <1>4, <1>5, <1>6, OneRequestKeeps

LEMMA ReceiveKeeps ==
  ASSUME IngestInv, NEW n \in Apis, NEW r \in Requests, Receive(n, r)
  PROVE  IngestInv'
<1> DEFINE q == [step |-> "received", api |-> n, at |-> 0, due |-> now + ReadTimeout]
<1>0. /\ RequestAt(r) /\ NodeAt(n) /\ now \in Nat /\ row.closesAt \in Nat
      /\ refreshBy[n] \in Nat /\ proc[n].stopBy \in Nat
      /\ proc[n] = Up \/ proc[n].state = "draining"
  BY Types DEF IngestInv, RequestInv, NodeInv, Nodes, Receive
<1>1. q \in Request
  BY <1>0, Constants DEF Request, Steps, InFlight
<1>2. Alive(q)
  BY <1>0, Constants DEF Alive, Up
<1>3. Waited(q)
  BY <1>0, Constants DEF Waited, NodeAt, DrainAt, Up
<1>4. Deadlines(q)
  <2>0. Refreshing(n) \/ proc[n].state = "draining"
    BY <1>0 DEF Refreshing
  <2>1. Stale(n) => now <= row.closesAt + MaxAge + DebugTime
    BY <1>0, <2>0, Constants DEF NodeAt, DrainAt
  <2> QED
    BY <1>0, <2>1, Constants DEF Deadlines
<1>5. r \notin topic
  BY <1>0 DEF Receive, RequestAt
<1>6. answer' \in [Requests -> {0, 202, 400, 404, 409, 503}]
  BY DEF IngestInv, TypeOK, Receive
<1>7. q.step # "lost" /\ req' = [req EXCEPT ![r] = q]
  BY DEF Receive
<1> HIDE DEF q
<1> QED
  BY <1>1, <1>2, <1>3, <1>4, <1>5, <1>6, <1>7, OneRequestKeeps DEF Receive

LEMMA CheckKeeps ==
  ASSUME IngestInv, NEW r \in Requests, Check(r)
  PROVE  IngestInv'
<1> DEFINE n == req[r].api
           verdict == Verdict(r, cache[n], now)
<1>0. /\ RequestAt(r) /\ req[r].step = "received" /\ req[r] \in Request
      /\ now \in Nat /\ row.closesAt \in Nat /\ req[r].due \in Nat
  BY Types DEF IngestInv, RequestInv, Check
<1>1. r \notin topic
  BY <1>0 DEF RequestAt
<1>2. UNCHANGED <<storeVars, cache, refreshBy, proc, topic, counted, dropped, committed>>
  BY DEF Check
<1>3. CASE verdict # Pass
  <2>1. verdict \in {400, 404, 409} /\ Answer(r, verdict)
    BY <1>3 DEF Check, Verdict, Pass
  <2> HIDE DEF verdict
  <2> QED
    BY <1>1, <1>2, <2>1, AnswerKeeps
<1>4. CASE verdict = Pass
  <2> DEFINE q == [step |-> "checked", api |-> n, at |-> req[r].at, due |-> now + Pause]
  <2>1. req' = [req EXCEPT ![r] = q] /\ answer' = answer
    BY <1>4 DEF Check
  <2>2. cache[n] # NoRow /\ now < cache[n].closesAt
    BY <1>4 DEF Verdict, Pass, IsOpenAt, Contains, RowWindow
  <2>3. n \in Apis /\ proc[n].state # "down" /\ now <= req[r].due
    BY <1>0 DEF RequestAt, Alive, InFlight
  <2>4. now <= row.closesAt + MaxAge + DebugTime + ReadTimeout
    <3>1. CASE Stale(n)
      BY <1>0, <2>3, <3>1, Constants DEF RequestAt, Deadlines
    <3>2. CASE ~Stale(n)
      <4>1. cache[n].closesAt = row.closesAt
        BY <2>2, <3>2 DEF Stale
      <4> QED
        BY <1>0, <2>2, <4>1, Constants
    <3> QED
      BY <3>1, <3>2
  <2>5. req[r].at = 0
    BY <1>0 DEF RequestAt, Deadlines
  <2>6. q \in Request
    BY <1>0, Constants DEF Request, Steps, InFlight
  <2>7. Alive(q)
    BY <1>0, <2>3, Constants DEF Alive
  <2>8. Deadlines(q)
    BY <1>0, <2>4, <2>5, Constants DEF Deadlines
  <2>9. Waited(q)
    <3>1. SUFFICES ASSUME proc[n].state \in {"draining", "stopping"}
                   PROVE  now + Pause + ShutdownGrace
                            <= proc[n].stopBy + DebugTime + ReadTimeout + Pause
      BY DEF Waited
    <3>2. req[r].due + ShutdownGrace <= proc[n].stopBy + DebugTime + ReadTimeout
      BY <1>0, <3>1 DEF RequestAt, Waited, InFlight
    <3>3. proc[n].stopBy \in Nat
      BY <2>3, Types DEF IngestInv
    <3> QED
      BY <1>0, <2>3, <3>2, <3>3, Constants
  <2>10. q.step # "lost" /\ answer' \in [Requests -> {0, 202, 400, 404, 409, 503}]
    BY <2>1 DEF IngestInv, TypeOK
  <2> HIDE DEF q, n
  <2> QED
    BY <1>1, <1>2, <2>1, <2>6, <2>7, <2>8, <2>9, <2>10, OneRequestKeeps
<1> QED
  BY <1>3, <1>4

LEMMA StampKeeps ==
  ASSUME IngestInv, NEW r \in Requests, Stamp(r)
  PROVE  IngestInv'
<1> DEFINE n == req[r].api
           q == [step |-> "sending", api |-> n, at |-> now, due |-> now + SendTimeout]
<1>0. /\ RequestAt(r) /\ req[r].step = "checked" /\ req[r] \in Request
      /\ now \in Nat /\ now >= 1 /\ now \in 0 .. MaxTime
      /\ row.closesAt \in Nat /\ req[r].due \in Nat
  BY Types DEF IngestInv, RequestInv, Stamp, TypeOK
<1>1. r \notin topic
  BY <1>0 DEF RequestAt
<1>2. req' = [req EXCEPT ![r] = q] /\ answer' = answer
  BY DEF Stamp
<1>3. n \in Apis /\ proc[n].state # "down" /\ now <= req[r].due
  BY <1>0 DEF RequestAt, Alive, InFlight
<1>4. q \in Request
  BY <1>0, Constants DEF Request, Steps, InFlight
<1>5. Alive(q)
  BY <1>0, <1>3, Constants DEF Alive
<1>6. Deadlines(q)
  <2>1. now <= row.closesAt + MaxAge + DebugTime + ReadTimeout + Pause
    BY <1>0, <1>3, Constants DEF RequestAt, Deadlines
  <2> QED
    BY <1>0, <2>1, Constants DEF Deadlines
<1>7. Waited(q)
  <2>1. SUFFICES ASSUME proc[n].state \in {"draining", "stopping"}
                 PROVE  now + SendTimeout + ShutdownGrace
                          <= proc[n].stopBy + DebugTime + ReadTimeout + Pause + SendTimeout
    BY DEF Waited
  <2>2. req[r].due + ShutdownGrace <= proc[n].stopBy + DebugTime + ReadTimeout + Pause
    BY <1>0, <2>1 DEF RequestAt, Waited, InFlight
  <2>3. proc[n].stopBy \in Nat
    BY <1>3, Types DEF IngestInv
  <2> QED
    BY <1>0, <1>3, <2>2, <2>3, Constants
<1>8. q.step # "lost" /\ answer' \in [Requests -> {0, 202, 400, 404, 409, 503}]
  BY <1>2 DEF IngestInv, TypeOK
<1>9. UNCHANGED <<storeVars, cache, refreshBy, proc, topic, counted, dropped, committed>>
  BY DEF Stamp
<1> HIDE DEF q, n
<1> QED
  BY <1>1, <1>2, <1>4, <1>5, <1>6, <1>7, <1>8, <1>9, OneRequestKeeps

LEMMA SendEndsKeeps ==
  ASSUME IngestInv, NEW r \in Requests, Ack(r) \/ SendFails(r)
  PROVE  IngestInv'
<1>1. /\ req[r].step = "sending" /\ \E code \in {202, 503} : Answer(r, code)
      /\ UNCHANGED <<storeVars, cache, refreshBy, proc, topic, counted, dropped, committed>>
  BY DEF Ack, SendFails
<1> QED
  BY <1>1, AnswerKeeps

(* What the broker and the consumers do touches no handler.                  *)
LEMMA TopicKeeps ==
  ASSUME IngestInv, NEW r \in Requests, BrokerAppends(r) \/ Commit(r) \/ \E d \in Drains : Count(d, r)
  PROVE  IngestInv'
<1>0. /\ TypeOK /\ NodeInv /\ RequestInv /\ InWindowIsCounted
  BY DEF IngestInv
<1>1. UNCHANGED <<storeVars, cache, refreshBy, proc, req, answer>>
  BY DEF BrokerAppends, Commit, Count
<1>2. AdminInv' /\ EndInv' /\ row' = row /\ now' = now /\ admin' = admin
  BY <1>1, StoreKept
<1>3. NodeInv'
  BY <1>0, <1>1, <1>2 DEF NodeInv, NodeAt, DrainAt, Refreshing, Stale, Nodes, NoRow, Up
<1>4. ASSUME NEW s \in Requests, s \in topic' => req[s].step \notin {"new", "received", "checked"}
      PROVE  RequestAt(s)'
  <2>1. RequestAt(s)
    BY <1>0 DEF RequestInv
  <2> QED
    BY <1>1, <1>2, <1>4, <2>1 DEF RequestAt, Alive, Deadlines, Waited, InFlight, Stale, NoRow, Late
<1>5. CASE BrokerAppends(r)
  <2>1. /\ topic' = topic \cup {r} /\ UNCHANGED <<counted, dropped, committed>>
        /\ req[r].step \notin {"new", "received", "checked"}
    BY <1>5 DEF BrokerAppends
  <2>2. RequestInv'
    BY <1>0, <1>4, <2>1 DEF RequestInv, RequestAt
  <2>3. InWindowIsCounted'
    BY <1>0, <1>1, <1>2, <2>1 DEF InWindowIsCounted, RowWindow, Contains
  <2>4. TypeOK'
    BY <1>0, <1>1, <1>2, <2>1 DEF TypeOK, Nodes, Steps, InFlight, NoApi, Row, Status
  <2> QED
    BY <1>2, <1>3, <2>2, <2>3, <2>4 DEF IngestInv
<1>6. ASSUME NEW d \in Drains, Count(d, r) PROVE IngestInv'
  <2>1. topic' = topic
    BY <1>6 DEF Count
  <2>2. RequestInv'
    BY <1>0, <1>4, <2>1 DEF RequestInv, RequestAt
  <2>3. TypeOK'
    <3>1. /\ counted' \subseteq topic' /\ dropped' \subseteq topic'
          /\ committed' \subseteq counted' \cup dropped'
      BY <1>0, <1>6 DEF TypeOK, Count
    <3> QED
      BY <1>0, <1>1, <1>2, <2>1, <3>1 DEF TypeOK, Nodes, Steps, InFlight, NoApi, Row, Status
  <2>4. InWindowIsCounted'
    <3>1. dropped' = dropped \/ /\ dropped' = dropped \cup {r}
                                /\ ~Contains(RowWindow(cache[d]), req[r].at)
      BY <1>6 DEF Count
    <3>2. cache[d].closesAt \in {ClosesAt, row.closesAt}
      BY <1>0, <1>6 DEF Count, NodeInv, NodeAt, Nodes
    <3>3. ~Contains(RowWindow(cache[d]), req[r].at) =>
            \/ ~Contains([opensAt |-> OpensAt, closesAt |-> ClosesAt], req[r].at)
            \/ ~Contains(RowWindow(row), req[r].at)
      BY <3>2 DEF RowWindow, Contains
    <3>4. \A s \in dropped' :
            \/ ~Contains([opensAt |-> OpensAt, closesAt |-> ClosesAt], req[s].at)
            \/ ~Contains(RowWindow(row), req[s].at)
      BY <1>0, <3>1, <3>3 DEF InWindowIsCounted
    <3> QED
      BY <1>1, <1>2, <3>4 DEF InWindowIsCounted, RowWindow, Contains
  <2> QED
    BY <1>2, <1>3, <2>2, <2>3, <2>4 DEF IngestInv
<1>7. CASE Commit(r)
  <2>1. topic' = topic /\ UNCHANGED <<counted, dropped>>
    BY <1>7 DEF Commit
  <2>2. RequestInv'
    BY <1>0, <1>4, <2>1 DEF RequestInv, RequestAt
  <2>3. InWindowIsCounted'
    BY <1>0, <1>1, <1>2, <2>1 DEF InWindowIsCounted, RowWindow, Contains
  <2>4. TypeOK'
    <3>1. committed' \subseteq counted' \cup dropped'
      BY <1>0, <1>7, <2>1 DEF TypeOK, Commit
    <3> QED
      BY <1>0, <1>1, <1>2, <2>1, <3>1 DEF TypeOK, Nodes, Steps, InFlight, NoApi, Row, Status
  <2> QED
    BY <1>2, <1>3, <2>2, <2>3, <2>4 DEF IngestInv
<1> QED
  BY <1>5, <1>6, <1>7

-----------------------------------------------------------------------------
(* Processes.  A node that takes no part keeps its part of the invariant.    *)
LEMMA OtherNode ==
  ASSUME IngestInv, row' = row, now' = now, NEW m \in Nodes, cache'[m] = cache[m],
         refreshBy'[m] = refreshBy[m], m \in Apis => proc'[m] = proc[m]
  PROVE  NodeAt(m)'
<1>1. NodeAt(m)
  BY DEF IngestInv, NodeInv
<1>2. Refreshing(m)' <=> Refreshing(m)
  BY DEF Refreshing, Up
<1> QED
  BY <1>1, <1>2 DEF NodeAt, DrainAt, Stale, NoRow

(* A cache that was just read is neither old nor stale.                      *)
LEMMA FreshNode ==
  ASSUME IngestInv, row' = row, now' = now, NEW n \in Nodes,
         cache'[n] = IF Active THEN row ELSE NoRow, refreshBy'[n] = now + MaxAge,
         Refreshing(n)'
  PROVE  NodeAt(n)' /\ ~Stale(n)'
<1>1. ~Stale(n)'
  BY DEF Stale, NoRow
<1>2. now \in Nat
  BY Types DEF IngestInv
<1>3. n \in Apis => DrainAt(n)'
  BY DEF DrainAt, Refreshing, Up
<1> QED
  BY <1>1, <1>2, <1>3, Constants DEF NodeAt, NoRow

LEMMA RefreshKeeps ==
  ASSUME IngestInv, NEW n \in Nodes, Refresh(n)
  PROVE  IngestInv'
<1>0. /\ TypeOK /\ RequestInv /\ InWindowIsCounted /\ row \in Row /\ NoRow \in Row
      /\ cache \in [Nodes -> Row] /\ refreshBy \in [Nodes -> Nat] /\ now + MaxAge \in Nat
  BY Types, Constants DEF IngestInv, TypeOK, NoRow, Row, Status
<1>1. UNCHANGED <<storeVars, proc, req, answer, topic, counted, dropped, committed>>
  BY DEF Refresh
<1>2. AdminInv' /\ EndInv' /\ row' = row /\ now' = now /\ admin' = admin
  BY <1>1, StoreKept
<1>3. /\ cache' \in [Nodes -> Row] /\ refreshBy' \in [Nodes -> Nat]
      /\ cache'[n] = IF Active THEN row ELSE NoRow
      /\ refreshBy'[n] = now + MaxAge
      /\ \A m \in Nodes \ {n} : cache'[m] = cache[m] /\ refreshBy'[m] = refreshBy[m]
  BY <1>0 DEF Refresh
<1>4. NodeAt(n)' /\ ~Stale(n)'
  <2>1. Refreshing(n)'
    BY <1>1 DEF Refresh, Refreshing, Up
  <2> QED
    BY <1>2, <1>3, <2>1, FreshNode
<1>5. NodeInv'
  <2>1. \A m \in Nodes \ {n} : NodeAt(m)'
    BY <1>1, <1>2, <1>3, OtherNode
  <2> QED
    BY <1>4, <2>1 DEF NodeInv, Nodes
<1>6. ASSUME NEW r \in Requests PROVE RequestAt(r)'
  <2>0. RequestAt(r)
    BY <1>0 DEF RequestInv
  <2>1. Alive(req[r])' /\ Waited(req[r])'
    BY <1>1, <1>2, <2>0 DEF RequestAt, Alive, Waited, InFlight
  <2>2. req[r].step = "received" /\ Stale(req[r].api)' => Stale(req[r].api)
    <3>1. req[r].step = "received" => req[r].api \in Nodes
      BY <2>0 DEF RequestAt, Alive, InFlight, Nodes
    <3>2. CASE req[r].api = n
      BY <1>1, <1>4, <3>2
    <3>3. CASE req[r].api # n
      BY <1>1, <1>2, <1>3, <3>1, <3>3 DEF Stale, NoRow
    <3> QED
      BY <3>2, <3>3
  <2>3. Deadlines(req[r])'
    BY <1>1, <1>2, <2>0, <2>2 DEF RequestAt, Deadlines, Late
  <2> QED
    BY <1>1, <2>0, <2>1, <2>3 DEF RequestAt
<1>7. InWindowIsCounted'
  BY <1>0, <1>1, <1>2 DEF InWindowIsCounted, RowWindow, Contains
<1>8. TypeOK'
  BY <1>0, <1>1, <1>2, <1>3 DEF TypeOK, Nodes, Steps, InFlight, NoApi, Row, Status
<1> QED
  BY <1>2, <1>5, <1>6, <1>7, <1>8 DEF IngestInv, RequestInv

LEMMA SigtermKeeps ==
  ASSUME IngestInv, NEW n \in Apis, Sigterm(n)
  PROVE  IngestInv'
<1> DEFINE stop == [state |-> "draining", stopBy |-> now + ShutdownGrace]
<1>0. /\ TypeOK /\ RequestInv /\ InWindowIsCounted /\ n \in Nodes
      /\ refreshBy \in [Nodes -> Nat] /\ now \in Nat /\ now + ShutdownGrace \in Nat
      /\ proc \in [Apis -> [state : {"up", "draining", "stopping", "down"}, stopBy : Nat]]
  BY Types, Constants DEF IngestInv, TypeOK, Nodes
<1>1. UNCHANGED <<storeVars, cache, req, answer, topic, counted, dropped, committed>>
  BY DEF Sigterm
<1>2. AdminInv' /\ EndInv' /\ row' = row /\ now' = now /\ admin' = admin
  BY <1>1, StoreKept
<1>3. /\ refreshBy' \in [Nodes -> Nat]
      /\ proc' \in [Apis -> [state : {"up", "draining", "stopping", "down"}, stopBy : Nat]]
      /\ proc'[n] = stop /\ \A m \in Apis \ {n} : proc'[m] = proc[m]
      /\ \A m \in Nodes \ {n} : refreshBy'[m] = refreshBy[m]
  BY <1>0 DEF Sigterm
<1>4. NodeInv'
  <2>1. \A m \in Nodes \ {n} : NodeAt(m)'
    BY <1>1, <1>2, <1>3, OtherNode
  <2>2. NodeAt(n)'
    <3>1. ~Refreshing(n)' /\ Refreshing(n)
      BY <1>3 DEF Sigterm, Refreshing, Up
    <3>2. NodeAt(n) /\ refreshBy[n] \in Nat /\ row.closesAt \in Nat
      BY <1>0, Types DEF IngestInv, NodeInv
    <3>3. Stale(n) => now <= row.closesAt + MaxAge
      BY <1>0, <3>1, <3>2, Constants DEF NodeAt
    <3>4. DrainAt(n)'
      BY <1>0, <1>1, <1>2, <1>3, <3>2, <3>3, Constants DEF DrainAt, Stale, NoRow
    <3> QED
      BY <1>1, <1>2, <3>1, <3>2, <3>4 DEF NodeAt, NoRow
  <2> QED
    BY <2>1, <2>2 DEF NodeInv, Nodes
<1>5. ASSUME NEW r \in Requests PROVE RequestAt(r)'
  <2>0. RequestAt(r) /\ req[r].due \in Nat
    BY <1>0, Types DEF RequestInv
  <2>1. Alive(req[r])'
    BY <1>1, <1>2, <1>3, <2>0 DEF RequestAt, Alive, InFlight
  <2>2. Deadlines(req[r])'
    BY <1>1, <1>2, <2>0 DEF RequestAt, Deadlines, Stale, NoRow, Late
  <2>3. Waited(req[r])'
    <3>1. CASE req[r].api = n
      <4>1. /\ req[r].step = "received" => req[r].due <= now + ReadTimeout
            /\ req[r].step = "checked" => req[r].due <= now + Pause
            /\ req[r].step = "sending" => req[r].due <= now + SendTimeout
        BY <2>0 DEF RequestAt, Deadlines
      <4>2. proc'[req[r].api].stopBy = now + ShutdownGrace
        BY <1>3, <3>1
      <4> QED
        BY <1>0, <1>1, <2>0, <4>1, <4>2, Constants DEF Waited
    <3>2. CASE req[r].step \in InFlight /\ req[r].api # n
      <4>1. proc'[req[r].api] = proc[req[r].api]
        BY <1>3, <2>0, <3>2 DEF RequestAt, Alive
      <4> QED
        BY <1>1, <2>0, <4>1 DEF RequestAt, Waited, InFlight
    <3>3. CASE req[r].step \notin InFlight
      BY <1>1, <3>3 DEF Waited, InFlight
    <3> QED
      BY <3>1, <3>2, <3>3
  <2> QED
    BY <1>1, <2>0, <2>1, <2>2, <2>3 DEF RequestAt
<1>6. InWindowIsCounted'
  BY <1>0, <1>1, <1>2 DEF InWindowIsCounted, RowWindow, Contains
<1>7. TypeOK'
  <2>1. \A r \in Requests : req'[r].step \in InFlight => proc'[req'[r].api].state # "down"
    BY <1>5 DEF RequestAt, Alive, InFlight
  <2> QED
    BY <1>0, <1>1, <1>2, <1>3, <2>1 DEF TypeOK, Nodes, Steps, InFlight, NoApi, Row, Status
<1> QED
  BY <1>2, <1>4, <1>5, <1>6, <1>7 DEF IngestInv, RequestInv

LEMMA CloseListenerKeeps ==
  ASSUME IngestInv, NEW n \in Apis, CloseListener(n)
  PROVE  IngestInv'
<1>0. /\ TypeOK /\ RequestInv /\ InWindowIsCounted /\ n \in Nodes
      /\ proc \in [Apis -> [state : {"up", "draining", "stopping", "down"}, stopBy : Nat]]
  BY DEF IngestInv, TypeOK, Nodes
<1>1. UNCHANGED <<storeVars, cache, refreshBy, req, answer, topic, counted, dropped, committed>>
  BY DEF CloseListener
<1>2. AdminInv' /\ EndInv' /\ row' = row /\ now' = now /\ admin' = admin
  BY <1>1, StoreKept
<1>3. /\ proc' \in [Apis -> [state : {"up", "draining", "stopping", "down"}, stopBy : Nat]]
      /\ proc[n].state = "draining" /\ proc'[n].state = "stopping"
      /\ proc'[n].stopBy = proc[n].stopBy /\ \A m \in Apis \ {n} : proc'[m] = proc[m]
  BY <1>0 DEF CloseListener
<1>4. NodeInv'
  <2>1. \A m \in Nodes \ {n} : NodeAt(m)'
    BY <1>1, <1>2, <1>3, OtherNode
  <2>2. NodeAt(n)'
    <3>1. ~Refreshing(n)' /\ DrainAt(n)'
      BY <1>3 DEF Refreshing, DrainAt, Up
    <3>2. NodeAt(n)
      BY <1>0 DEF IngestInv, NodeInv
    <3> QED
      BY <1>1, <1>2, <3>1, <3>2 DEF NodeAt, NoRow
  <2> QED
    BY <2>1, <2>2 DEF NodeInv, Nodes
<1>5. ASSUME NEW r \in Requests PROVE RequestAt(r)'
  <2>0. RequestAt(r)
    BY <1>0 DEF RequestInv
  <2>1. Deadlines(req[r])'
    BY <1>1, <1>2, <2>0 DEF RequestAt, Deadlines, Stale, NoRow, Late
  <2>2. CASE req[r].step \in InFlight
    <3>1. req[r].api \in Apis
      BY <2>0, <2>2 DEF RequestAt, Alive
    <3>2. /\ proc'[req[r].api].stopBy = proc[req[r].api].stopBy
          /\ proc[req[r].api].state # "down" => proc'[req[r].api].state # "down"
          /\ proc'[req[r].api].state \in {"draining", "stopping"} =>
               proc[req[r].api].state \in {"draining", "stopping"}
      BY <1>3, <3>1
    <3>3. Alive(req[r])' /\ Waited(req[r])'
      BY <1>1, <1>2, <2>0, <3>1, <3>2 DEF RequestAt, Alive, Waited, InFlight
    <3> QED
      BY <1>1, <2>0, <2>1, <3>3 DEF RequestAt
  <2>3. CASE req[r].step \notin InFlight
    BY <1>1, <2>0, <2>1, <2>3 DEF RequestAt, Alive, Waited, InFlight
  <2> QED
    BY <2>2, <2>3
<1>6. InWindowIsCounted'
  BY <1>0, <1>1, <1>2 DEF InWindowIsCounted, RowWindow, Contains
<1>7. TypeOK'
  <2>1. \A r \in Requests : req'[r].step \in InFlight => proc'[req'[r].api].state # "down"
    BY <1>5 DEF RequestAt, Alive, InFlight
  <2> QED
    BY <1>0, <1>1, <1>2, <1>3, <2>1 DEF TypeOK, Nodes, Steps, InFlight, NoApi, Row, Status
<1> QED
  BY <1>2, <1>4, <1>5, <1>6, <1>7 DEF IngestInv, RequestInv

LEMMA StartKeeps ==
  ASSUME IngestInv, NEW n \in Apis, Start(n)
  PROVE  IngestInv'
<1>0. /\ TypeOK /\ RequestInv /\ InWindowIsCounted /\ n \in Nodes
      /\ row \in Row /\ NoRow \in Row /\ now + MaxAge \in Nat
      /\ cache \in [Nodes -> Row] /\ refreshBy \in [Nodes -> Nat]
      /\ proc \in [Apis -> [state : {"up", "draining", "stopping", "down"}, stopBy : Nat]]
      /\ Up \in [state : {"up", "draining", "stopping", "down"}, stopBy : Nat]
  BY Types, Constants DEF IngestInv, TypeOK, Nodes, NoRow, Row, Status, Up
<1>1. UNCHANGED <<storeVars, req, answer, topic, counted, dropped, committed>>
  BY DEF Start
<1>2. AdminInv' /\ EndInv' /\ row' = row /\ now' = now /\ admin' = admin
  BY <1>1, StoreKept
<1>3. /\ cache' \in [Nodes -> Row] /\ refreshBy' \in [Nodes -> Nat]
      /\ proc' \in [Apis -> [state : {"up", "draining", "stopping", "down"}, stopBy : Nat]]
      /\ cache'[n] = IF Active THEN row ELSE NoRow
      /\ refreshBy'[n] = now + MaxAge /\ proc'[n] = Up
      /\ \A m \in Nodes \ {n} : cache'[m] = cache[m] /\ refreshBy'[m] = refreshBy[m]
      /\ \A m \in Apis \ {n} : proc'[m] = proc[m]
  BY <1>0 DEF Start
<1>4. NodeInv'
  <2>1. \A m \in Nodes \ {n} : NodeAt(m)'
    BY <1>1, <1>2, <1>3, OtherNode
  <2>2. NodeAt(n)'
    <3>1. Refreshing(n)'
      BY <1>3 DEF Refreshing, Up
    <3> QED
      BY <1>0, <1>2, <1>3, <3>1, FreshNode
  <2> QED
    BY <2>1, <2>2 DEF NodeInv, Nodes
<1>5. ASSUME NEW r \in Requests PROVE RequestAt(r)'
  <2>0. RequestAt(r)
    BY <1>0 DEF RequestInv
  <2>1. req[r].step \in InFlight => req[r].api \in Apis \ {n}
    BY <2>0 DEF RequestAt, Alive, Start, Down
  <2>2. req[r].step \in InFlight =>
          proc'[req[r].api] = proc[req[r].api] /\ cache'[req[r].api] = cache[req[r].api]
    BY <1>3, <2>1 DEF Nodes
  <2>3. Alive(req[r])' /\ Waited(req[r])'
    BY <1>1, <1>2, <2>0, <2>2 DEF RequestAt, Alive, Waited, InFlight
  <2>4. Deadlines(req[r])'
    BY <1>1, <1>2, <2>0, <2>2 DEF RequestAt, Deadlines, Stale, NoRow, Late, InFlight
  <2> QED
    BY <1>1, <2>0, <2>3, <2>4 DEF RequestAt
<1>6. InWindowIsCounted'
  BY <1>0, <1>1, <1>2 DEF InWindowIsCounted, RowWindow, Contains
<1>7. TypeOK'
  <2>1. \A r \in Requests : req'[r].step \in InFlight => proc'[req'[r].api].state # "down"
    BY <1>5 DEF RequestAt, Alive, InFlight
  <2> QED
    BY <1>0, <1>1, <1>2, <1>3, <2>1 DEF TypeOK, Nodes, Steps, InFlight, NoApi, Row, Status
<1> QED
  BY <1>2, <1>4, <1>5, <1>6, <1>7 DEF IngestInv, RequestInv

(* A process that exits has no request left: the deadline of a handler comes *)
(* before the one of Shutdown, and time has not passed it.                   *)
LEMMA ExitIsEmpty ==
  ASSUME IngestInv, NEW n \in Apis, Exit(n)
  PROVE  Handling(n) = {}
<1>1. SUFFICES ASSUME NEW r \in Handling(n), now >= proc[n].stopBy PROVE FALSE
  BY DEF Exit
<1>2. /\ r \in Requests /\ req[r].step \in InFlight /\ req[r].api = n
      /\ proc[n].state = "stopping"
  BY <1>1 DEF Handling, Exit
<1>3. /\ RequestAt(r) /\ now \in Nat /\ req[r].due \in Nat /\ proc[n].stopBy \in Nat
  BY <1>2, Types DEF IngestInv, RequestInv
<1>4. now <= req[r].due
  BY <1>2, <1>3 DEF RequestAt, Alive
<1>5. req[r].due + ShutdownGrace <= proc[n].stopBy + DebugTime + ReadTimeout + Pause + SendTimeout
  BY <1>2, <1>3, Constants DEF RequestAt, Waited, InFlight
<1> QED
  BY <1>1, <1>3, <1>4, <1>5, Constants

LEMMA GoneKeeps ==
  ASSUME IngestInv, NEW n \in Apis, NEW step \in {"lost", "broken"}, Gone(n, step),
         step = "lost" => Handling(n) = {}
  PROVE  IngestInv'
<1>0. /\ TypeOK /\ RequestInv /\ InWindowIsCounted /\ n \in Nodes /\ NoRow \in Row
      /\ cache \in [Nodes -> Row] /\ refreshBy \in [Nodes -> Nat]
      /\ req \in [Requests -> Request]
      /\ proc \in [Apis -> [state : {"up", "draining", "stopping", "down"}, stopBy : Nat]]
      /\ Down \in [state : {"up", "draining", "stopping", "down"}, stopBy : Nat]
  BY Types DEF IngestInv, TypeOK, Nodes, NoRow, Row, Status, Down
<1>1. UNCHANGED <<storeVars, answer, topic, counted, dropped, committed>>
  BY DEF Gone
<1>2. AdminInv' /\ EndInv' /\ row' = row /\ now' = now /\ admin' = admin
  BY <1>1, StoreKept
<1>3. /\ cache' \in [Nodes -> Row] /\ refreshBy' \in [Nodes -> Nat]
      /\ proc' \in [Apis -> [state : {"up", "draining", "stopping", "down"}, stopBy : Nat]]
      /\ cache'[n] = NoRow /\ proc'[n] = Down
      /\ \A m \in Nodes \ {n} : cache'[m] = cache[m] /\ refreshBy'[m] = refreshBy[m]
      /\ \A m \in Apis \ {n} : proc'[m] = proc[m]
  BY <1>0 DEF Gone
<1>4. ASSUME NEW r \in Requests
      PROVE  /\ req'[r] \in Request /\ req'[r].at = req[r].at
             /\ RequestAt(r)'
  <2>0. RequestAt(r) /\ req[r] \in Request
    BY <1>0 DEF RequestInv
  <2>1. CASE r \in Handling(n)
    <3>0. step = "broken" /\ req[r].step \in InFlight
      BY <2>1 DEF Handling
    <3>1. req'[r] = [req[r] EXCEPT !.step = "broken"]
      BY <2>1, <3>0 DEF Gone
    <3>2. /\ req'[r] \in Request /\ req'[r].at = req[r].at
          /\ req'[r].step = "broken" /\ req'[r].due = req[r].due
      BY <2>0, <3>1 DEF Request, Steps
    <3>3. Alive(req[r])' /\ Waited(req[r])'
      BY <3>2 DEF Alive, Waited, InFlight
    <3>4. Deadlines(req[r])'
      BY <1>2, <2>0, <3>2 DEF RequestAt, Deadlines, Late
    <3> QED
      BY <3>2, <3>3, <3>4 DEF RequestAt
  <2>2. CASE r \notin Handling(n)
    <3>1. req'[r] = req[r]
      BY <2>2 DEF Gone
    <3>2. req[r].step \in InFlight => req[r].api \in Apis \ {n}
      BY <2>0, <2>2 DEF Handling, RequestAt, Alive
    <3>3. req[r].step \in InFlight =>
            proc'[req[r].api] = proc[req[r].api] /\ cache'[req[r].api] = cache[req[r].api]
      BY <1>3, <3>2 DEF Nodes
    <3>4. Alive(req[r])' /\ Waited(req[r])'
      BY <1>2, <2>0, <3>1, <3>3 DEF RequestAt, Alive, Waited, InFlight
    <3>5. Deadlines(req[r])'
      BY <1>2, <2>0, <3>1, <3>3 DEF RequestAt, Deadlines, Stale, NoRow, Late, InFlight
    <3> QED
      BY <1>1, <2>0, <3>1, <3>4, <3>5 DEF RequestAt
  <2> QED
    BY <2>1, <2>2
<1>5. req' \in [Requests -> Request]
  <2>1. DOMAIN req' = Requests /\ req' = [r \in Requests |-> req'[r]]
    BY DEF Gone
  <2> QED
    BY <1>4, <2>1
<1>6. NodeInv'
  <2>1. \A m \in Nodes \ {n} : NodeAt(m)'
    BY <1>1, <1>2, <1>3, OtherNode
  <2>2. NodeAt(n)'
    <3>1. ~Refreshing(n)' /\ DrainAt(n)'
      BY <1>3 DEF Refreshing, DrainAt, Up, Down
    <3> QED
      BY <1>3, <3>1 DEF NodeAt, NoRow
  <2> QED
    BY <2>1, <2>2 DEF NodeInv, Nodes
<1>7. InWindowIsCounted'
  <2>1. dropped \subseteq Requests
    BY <1>0 DEF TypeOK
  <2> QED
    BY <1>0, <1>1, <1>2, <1>4, <2>1 DEF InWindowIsCounted, RowWindow, Contains
<1>8. TypeOK'
  <2>1. \A r \in Requests : req'[r].step \in InFlight => proc'[req'[r].api].state # "down"
    BY <1>4 DEF RequestAt, Alive, InFlight
  <2> QED
    BY <1>0, <1>1, <1>2, <1>3, <1>5, <2>1
       DEF TypeOK, Request, Nodes, Steps, InFlight, NoApi, Row, Status
<1> QED
  BY <1>2, <1>4, <1>6, <1>7, <1>8 DEF IngestInv, RequestInv

-----------------------------------------------------------------------------
LEMMA InitIngestInv == Init => IngestInv
<1> SUFFICES ASSUME Init PROVE IngestInv
  OBVIOUS
<1>1. AdminInv /\ StoreInit
  BY StoreInitInv DEF Init
<1>2. /\ now \in 1 .. MaxTime /\ now \in Nat /\ row \in Row /\ admin.op = "idle"
      /\ row.closesAt = ClosesAt /\ row.status = "scheduled"
      /\ admin \in [op : {"idle", "open", "close"}, version : Nat]
  BY <1>1, Constants DEF AdminInv, StoreType, StoreInit, AdminRequest, Idle
<1>3. TypeOK
  <2>1. cache \in [Nodes -> Row] /\ refreshBy \in [Nodes -> Nat]
    BY <1>2, Constants DEF Init
  <2>2. proc \in [Apis -> [state : {"up", "draining", "stopping", "down"}, stopBy : Nat]]
    BY DEF Init, Up
  <2>3. /\ req \in [Requests -> [step : Steps, api : Apis \cup {NoApi}, at : 0 .. MaxTime, due : Nat]]
        /\ \A r \in Requests : req[r].step \notin InFlight
    BY Constants DEF Init, Steps, InFlight
  <2> QED
    BY <1>2, <2>1, <2>2, <2>3 DEF TypeOK, Init
<1>4. EndInv
  BY <1>2 DEF EndInv
<1>5. NodeInv
  BY <1>2, Constants DEF Init, NodeInv, NodeAt, DrainAt, Stale, Up
<1>6. RequestInv
  BY DEF Init, RequestInv, RequestAt, Alive, Deadlines, Waited, InFlight
<1>7. InWindowIsCounted
  BY DEF Init, InWindowIsCounted
<1> QED
  BY <1>1, <1>3, <1>4, <1>5, <1>6, <1>7 DEF IngestInv

LEMMA NextIngestInv == IngestInv /\ [Next]_vars => IngestInv'
<1> SUFFICES ASSUME IngestInv, [Next]_vars PROVE IngestInv'
  OBVIOUS
<1>1. CASE TimePasses
  BY <1>1, TimeKeeps
<1>2. CASE Admin \/ OpenOnSchedule \/ Finalize
  BY <1>2, WriteKeeps
<1>3. ASSUME NEW n \in Nodes, Refresh(n) PROVE IngestInv'
  BY <1>3, RefreshKeeps
<1>4. ASSUME NEW n \in Apis, Sigterm(n) \/ CloseListener(n) \/ Exit(n) \/ Crash(n) \/ Start(n)
      PROVE  IngestInv'
  <2>1. CASE Exit(n)
    BY <2>1, ExitIsEmpty, GoneKeeps DEF Exit
  <2>2. CASE Crash(n)
    BY <2>2, GoneKeeps DEF Crash
  <2> QED
    BY <1>4, <2>1, <2>2, SigtermKeeps, CloseListenerKeeps, StartKeeps
<1>5. ASSUME NEW r \in Requests, RequestStep(r) \/ Commit(r) \/ \E d \in Drains : Count(d, r)
      PROVE  IngestInv'
  BY <1>5, ReceiveKeeps, CheckKeeps, StampKeeps, SendEndsKeeps, TopicKeeps DEF RequestStep
<1>6. CASE UNCHANGED vars
  <2>1. UNCHANGED <<cache, refreshBy, proc, req, answer, topic, counted, dropped, committed>>
        /\ UNCHANGED storeVars
    BY <1>6 DEF vars, ingestVars
  <2>2. AdminInv' /\ EndInv' /\ row' = row /\ now' = now /\ admin' = admin
    BY <2>1, StoreKept
  <2>3. NodeInv' /\ InWindowIsCounted'
    BY <2>1, <2>2
       DEF IngestInv, NodeInv, NodeAt, DrainAt, Refreshing, Stale, Nodes, NoRow, Up,
           InWindowIsCounted, RowWindow, Contains
  <2>4. RequestInv'
    BY <2>1, <2>2 DEF IngestInv, RequestInv, RequestAt, Alive, Deadlines, Waited, Stale,
                      InFlight, Late, NoRow
  <2>5. TypeOK'
    BY <2>1, <2>2 DEF IngestInv, TypeOK, Nodes, Steps, InFlight, NoApi, Row, Status
  <2> QED
    BY <2>2, <2>3, <2>4, <2>5 DEF IngestInv
<1> QED
  BY <1>1, <1>2, <1>3, <1>4, <1>5, <1>6 DEF Next

LEMMA IngestInvariant == Spec => []IngestInv
BY InitIngestInv, NextIngestInv, PTL DEF Spec

(* Types of the caches, processes and requests; a request in progress has a  *)
(* process, and an offset is committed only once its vote is decided.        *)
THEOREM IngestTypeCorrect == Spec => []TypeOK
<1>1. IngestInv => TypeOK
  BY DEF IngestInv
<1> QED
  BY <1>1, IngestInvariant, PTL

(* No consumer drops a vote that the announced and the stored window both    *)
(* contain, with a cache of any age: an admin moves the end once at most, so *)
(* every cached end is one of the two.                                       *)
THEOREM InWindowIsCountedHolds == Spec => []InWindowIsCounted
<1>1. IngestInv => InWindowIsCounted
  BY DEF IngestInv
<1> QED
  BY <1>1, IngestInvariant, PTL

(* A process that is told to stop answers what it has begun: every handler's *)
(* timeouts end before the deadline of Shutdown, also when the handler began *)
(* while the pprof server was using that deadline up.                        *)
THEOREM NoRequestLostHolds == Spec => []NoRequestLost
<1>1. IngestInv => NoRequestLost
  BY DEF IngestInv, RequestInv, RequestAt, NoRequestLost
<1> QED
  BY <1>1, IngestInvariant, PTL

(* Only the broker adds to the topic, and only what is due.                  *)
LEMMA TopicGrowsInTime ==
  ASSUME IngestInv, [Next]_vars, topic' # topic
  PROVE  now <= row.closesAt + Late
<1>1. PICK r \in Requests : BrokerAppends(r)
  BY DEF Next, TimePasses, Admin, OpenOnSchedule, Finalize, Refresh, Sigterm, CloseListener, Exit,
         Crash, Gone, Start, RequestStep, Receive, Check, Stamp, Ack, SendFails, Count, Commit, vars,
         ingestVars
<1>2. req[r].at # 0 /\ now <= req[r].due
  BY <1>1 DEF BrokerAppends
<1>3. req[r].due <= row.closesAt + Late /\ req[r].due \in Nat /\ now \in Nat /\ row.closesAt \in Nat
  BY <1>2, Types DEF IngestInv, RequestInv, RequestAt, Deadlines
<1> QED
  BY <1>2, <1>3, Constants

(* A vote that was accepted reaches the topic at most Late after the end of  *)
(* the window, wherever an admin moves that end and whatever a stopping      *)
(* process still has in its cache.                                           *)
THEOREM VotesLandInTime == Spec => LandsInTime
<1>1. ASSUME IngestInv, [Next]_vars
      PROVE  topic' # topic => now <= row.closesAt + Late
  BY <1>1, TopicGrowsInTime
<1> QED
  BY <1>1, IngestInvariant, PTL DEF Spec, LandsInTime

(* No vote reaches the topic of a poll that is closed: the grace period      *)
(* outlasts Late.                                                            *)
THEOREM FinalIsFinal == Spec => NoVoteAfterFinal
<1>1. ASSUME IngestInv, [Next]_vars
      PROVE  row.status = "closed" => topic' = topic
  <2>1. row.status = "closed" => now >= row.closesAt + Grace
    BY <1>1 DEF IngestInv, EndInv
  <2>2. now \in Nat /\ row.closesAt \in Nat
    BY <1>1, Types DEF IngestInv
  <2> QED
    BY <1>1, <2>1, <2>2, TopicGrowsInTime, Constants
<1> QED
  BY <1>1, IngestInvariant, PTL DEF Spec, NoVoteAfterFinal

=============================================================================
