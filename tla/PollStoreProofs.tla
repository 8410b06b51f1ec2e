--------------------------- MODULE PollStoreProofs ---------------------------
(* What the version of a row is worth, for every module built on PollStore.  *)
(* Transition and CloseNow check nothing but the version, and each of the    *)
(* writers has looked at the row some time before it writes: if the version  *)
(* is still the one it read, so is the row.                                  *)
EXTENDS PollStore, TLAPS

NextRow(r, status, closesAt) ==
  [status |-> status, version |-> r.version + 1, closesAt |-> closesAt]

(* The writes that are left: along an edge of the state machine, or to the   *)
(* end of the window of a poll that is open.                                 *)
Opens  == row.status = "scheduled" /\ row' = NextRow(row, "open", row.closesAt)
Closes == row.status = "open" /\ row' = NextRow(row, "closed", row.closesAt)
Moves  == row.status = "open" /\ row' = NextRow(row, "open", now)

RowStep == Opens \/ Closes \/ Moves \/ row' = row

AdminRequest == [op : {"idle", "open", "close"}, version : Nat]

StoreType ==
  /\ now \in 1 .. MaxTime
  /\ row \in Row
  /\ admin \in AdminRequest

(* A row is never a draft or archived, and the admin's pending write, if its *)
(* version is still current, meets the row it was checked on.                *)
AdminInv ==
  /\ StoreType
  /\ row.status \in {"scheduled", "open", "closed"}
  /\ row.version >= 1
  /\ admin.version <= row.version
  /\ admin.version = row.version =>
       /\ admin.op = "open" => row.status = "scheduled"
       /\ admin.op = "close" => row.status = "open"

LEMMA StoreInitInv == StoreInit => AdminInv
BY WindowAssumption DEF StoreInit, AdminInv, StoreType, Row, Status, Idle, AdminRequest

LEMMA RowUpdates ==
  ASSUME NEW r \in Row
  PROVE  /\ \A to : [r EXCEPT !.status = to, !.version = @ + 1] = NextRow(r, to, r.closesAt)
         /\ \A t : [r EXCEPT !.closesAt = t, !.version = @ + 1] = NextRow(r, r.status, t)
<1>1. ASSUME NEW to
      PROVE  [r EXCEPT !.status = to, !.version = @ + 1] = NextRow(r, to, r.closesAt)
  <2> DEFINE q == [r EXCEPT !.status = to]
             p == [q EXCEPT !.version = r.version + 1]
  <2>1. q = [status |-> to, version |-> r.version, closesAt |-> r.closesAt]
    BY DEF Row
  <2> HIDE DEF q
  <2>2. p = NextRow(r, to, r.closesAt)
    BY <2>1 DEF NextRow
  <2> QED
    BY <2>2 DEF q
<1>2. ASSUME NEW t
      PROVE  [r EXCEPT !.closesAt = t, !.version = @ + 1] = NextRow(r, r.status, t)
  <2> DEFINE q == [r EXCEPT !.closesAt = t]
             p == [q EXCEPT !.version = r.version + 1]
  <2>1. q = [status |-> r.status, version |-> r.version, closesAt |-> t]
    BY DEF Row
  <2> HIDE DEF q
  <2>2. p = NextRow(r, r.status, t)
    BY <2>1 DEF NextRow
  <2> QED
    BY <2>2 DEF q
<1> QED
  BY <1>1, <1>2

(* A version stands for one row.                                             *)
LEMMA VersionNamesRow ==
  ASSUME AdminInv, RowStep
  PROVE  /\ row' \in Row
         /\ row'.status \in {"scheduled", "open", "closed"}
         /\ row'.version >= row.version
         /\ row'.version = row.version => row' = row
<1>1. row \in Row /\ now \in Nat /\ row.version \in Nat
  BY WindowAssumption DEF AdminInv, StoreType, Row
<1>2. CASE Opens
  BY <1>1, <1>2 DEF Opens, NextRow, Row, Status
<1>3. CASE Closes
  BY <1>1, <1>3 DEF Closes, NextRow, Row, Status
<1>4. CASE Moves
  BY <1>1, <1>4 DEF Moves, NextRow, Row, Status
<1>5. CASE row' = row
  BY <1>1, <1>5 DEF AdminInv
<1> QED
  BY <1>2, <1>3, <1>4, <1>5 DEF RowStep

(* What is left of the admin's request and of the clock when another actor   *)
(* writes the row.                                                           *)
LEMMA OthersKeepAdminInv ==
  ASSUME AdminInv, RowStep, now' = now, admin' = admin
  PROVE  AdminInv'
BY VersionNamesRow DEF AdminInv, StoreType, AdminRequest, Row

LEMMA TickKeepsAdminInv ==
  ASSUME AdminInv, Tick
  PROVE  AdminInv'
BY WindowAssumption DEF AdminInv, StoreType, Tick

(* The admin only makes steps that the state machine and the window allow.   *)
LEMMA AdminRowStep ==
  ASSUME AdminInv, AdminStep
  PROVE  (Opens \/ Moves \/ row' = row) /\ now' = now
<1>0. row \in Row
  BY DEF AdminInv, StoreType
<1>1. CASE OpenWrite
  <2>1. row' = row \/ (admin.version = row.version /\ row' = NextRow(row, "open", row.closesAt))
    BY <1>0, <1>1, RowUpdates DEF OpenWrite, Transition
  <2> QED
    BY <1>1, <2>1 DEF OpenWrite, AdminInv, Opens
<1>2. CASE CloseWrite
  <2>1. row' = row \/ (admin.version = row.version /\ row' = NextRow(row, row.status, now))
    BY <1>0, <1>2, RowUpdates DEF CloseWrite, CloseNow
  <2> QED
    BY <1>2, <2>1 DEF CloseWrite, AdminInv, Moves
<1>3. CASE OpenRead \/ CloseRead \/ AdminFails
  BY <1>3 DEF OpenRead, CloseRead, AdminFails
<1> QED
  BY <1>1, <1>2, <1>3 DEF AdminStep, AdminEnds

LEMMA AdminKeepsAdminInv ==
  ASSUME AdminInv, AdminStep
  PROVE  AdminInv'
<1>1. RowStep /\ now' = now
  BY AdminRowStep DEF RowStep
<1>2. /\ row' \in Row /\ row'.status \in {"scheduled", "open", "closed"}
      /\ row'.version >= row.version
      /\ row.version \in Nat /\ row'.version \in Nat
  BY <1>1, VersionNamesRow DEF AdminInv, StoreType, Row
<1>3. CASE admin' = Idle
  BY <1>1, <1>2, <1>3 DEF AdminInv, StoreType, AdminRequest, Idle
<1>4. CASE OpenRead
  BY <1>1, <1>2, <1>4 DEF OpenRead, AdminInv, StoreType, AdminRequest, CanTransitionTo, transitions
<1>5. CASE CloseRead
  BY <1>1, <1>2, <1>5 DEF CloseRead, AdminInv, StoreType, AdminRequest, IsOpenAt
<1> QED
  BY <1>3, <1>4, <1>5 DEF AdminStep, AdminEnds, OpenWrite, CloseWrite, AdminFails

(* A write with the version of a row that was seen open or scheduled.        *)
LEMMA TransitionRowStep ==
  ASSUME AdminInv, NEW r \in Row, r.version = row.version => r = row,
         NEW to, Transition(to, r.version),
         \/ to = "open" /\ r.status = "scheduled"
         \/ to = "closed" /\ r.status = "open"
  PROVE  RowStep
<1>1. row \in Row
  BY DEF AdminInv, StoreType
<1>2. row' = row \/ (r = row /\ row' = NextRow(row, to, row.closesAt))
  BY <1>1, RowUpdates DEF Transition
<1> QED
  BY <1>2 DEF RowStep, Opens, Closes

=============================================================================
