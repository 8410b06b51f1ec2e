------------------------------- MODULE Domain -------------------------------
(* The pure rules of internal/domain: the poll state machine, the voting     *)
(* window and the aggregate that snapshots are merged with.  Times are       *)
(* naturals; 0 is Go's zero time.                                            *)
EXTENDS Integers, Sequences, FiniteSets

Status == {"draft", "scheduled", "open", "closed", "archived"}

(* fsm.go: the only edges of the poll state machine.                         *)
transitions == { <<"draft", "scheduled">>, <<"scheduled", "open">>,
                 <<"open", "closed">>, <<"closed", "archived">> }

CanTransitionTo(from, to) == <<from, to>> \in transitions

-----------------------------------------------------------------------------
(* Window.Contains: the half-open interval [opensAt, closesAt); a window     *)
(* without an end contains nothing.                                          *)
Contains(w, t) ==
  /\ w.closesAt # 0
  /\ w.opensAt <= t
  /\ t < w.closesAt

IsOpenAt(status, w, t) == status = "open" /\ Contains(w, t)

ShouldOpenAt(status, w, t) ==
  /\ status = "scheduled"
  /\ w.opensAt # 0
  /\ t >= w.opensAt

-----------------------------------------------------------------------------
(* Aggregate.MergeMax, and results.Upsert's GREATEST in SQL: every counter   *)
(* takes the larger of its two values, on its own.                           *)
Larger(a, b) == IF a >= b THEN a ELSE b

MergeMax(a, b) ==
  [votes   |-> [o \in DOMAIN a.votes |-> Larger(a.votes[o], b.votes[o])],
   ballots |-> Larger(a.ballots, b.ballots)]

=============================================================================
