----------------------------- MODULE PollStore -----------------------------
(* One poll's row in Postgres and the two admin operations that move it      *)
(* (internal/service/polls over internal/adapter/postgres).  Every write is  *)
(* guarded by the version its writer read; between the read and the write of *)
(* one actor any other actor may act.                                        *)
EXTENDS Domain

CONSTANTS
  OpensAt, ClosesAt,   \* the window the poll is created with
  CloseLag,            \* how long after the window ended a close that was
                       \* checked before can still be written
  MaxTime              \* bound: the clock stops here

ASSUME WindowAssumption ==
  /\ {OpensAt, MaxTime} \subseteq Nat \ {0} /\ {ClosesAt, CloseLag} \subseteq Nat
  /\ OpensAt < ClosesAt

VARIABLES
  now,     \* the clock of every process, and Postgres' now()
  row,     \* [status, version, closesAt]
  admin    \* the admin request under way: [op, version]

storeVars == <<now, row, admin>>

Row  == [status : Status, version : Nat, closesAt : Nat]
Idle == [op |-> "idle", version |-> 0]

RowWindow(r) == [opensAt |-> OpensAt, closesAt |-> r.closesAt]

(* Mutant: only open polls are listed.                                       *)
ActiveIfOpen == row.status = "open"

(* ListActive: status IN ('scheduled', 'open').                              *)
Active == row.status \in {"scheduled", "open"}

(* NewPoll: a poll is stored as scheduled, at version 1.                     *)
StoreInit ==
  /\ now = 1
  /\ row = [status |-> "scheduled", version |-> 1, closesAt |-> ClosesAt]
  /\ admin = Idle

Tick ==
  /\ now < MaxTime
  /\ admin.op = "close" => now < ClosesAt + CloseLag
  /\ now' = now + 1
  /\ UNCHANGED <<row, admin>>

-----------------------------------------------------------------------------
(* Mutant: the UPDATE has no version in its WHERE clause.                    *)
TransitionBlind(to, version) ==
  row' = [row EXCEPT !.status = to, !.version = @ + 1]

(* PollRepo.Transition: it sets any status, the version is its only guard.   *)
Transition(to, version) ==
  row' = IF row.version = version
           THEN [row EXCEPT !.status = to, !.version = @ + 1]
           ELSE row

(* PollRepo.CloseNow: the end of the window moves, the status stays.         *)
CloseNow(version) ==
  row' = IF row.version = version
           THEN [row EXCEPT !.closesAt = now, !.version = @ + 1]
           ELSE row

(* Service.Open: read the row and check the state machine ...                *)
OpenRead ==
  /\ admin = Idle
  /\ CanTransitionTo(row.status, "open")
  /\ admin' = [op |-> "open", version |-> row.version]
  /\ UNCHANGED <<now, row>>

(* ... then write with the version that was read.                            *)
OpenWrite ==
  /\ admin.op = "open"
  /\ Transition("open", admin.version)
  /\ admin' = Idle
  /\ UNCHANGED now

(* Service.Close: only while the poll takes votes.                           *)
CloseRead ==
  /\ admin = Idle
  /\ IsOpenAt(row.status, RowWindow(row), now)
  /\ admin' = [op |-> "close", version |-> row.version]
  /\ UNCHANGED <<now, row>>

CloseWrite ==
  /\ admin.op = "close"
  /\ CloseNow(admin.version)
  /\ admin' = Idle
  /\ UNCHANGED now

(* The request dies between its read and its write.                          *)
AdminFails ==
  /\ admin # Idle
  /\ admin' = Idle
  /\ UNCHANGED <<now, row>>

AdminEnds == OpenWrite \/ CloseWrite \/ AdminFails
AdminStep == OpenRead \/ CloseRead \/ AdminEnds

=============================================================================
