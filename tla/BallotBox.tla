------------------------------ MODULE BallotBox ------------------------------
(* What counting promises, with no Kafka, no consumer and no Redis in it: a  *)
(* voter's first counted ballot of a poll is final, it is one that was cast, *)
(* and it was cast inside the window of its poll.                            *)
EXTENDS Domain

CONSTANTS Polls, Voters, Options, Messages, OpensAt, ClosesAt

VARIABLES
  cast,     \* the votes the API has put on the topic
  ballot    \* ballot[q, v]: the choices counted for voter v of poll q, or {}

vars == <<cast, ballot>>

Init ==
  /\ cast = {}
  /\ ballot = [k \in Polls \X Voters |-> {}]

Cast(m) ==
  /\ cast' = cast \cup {m}
  /\ UNCHANGED ballot

Record(m) ==
  /\ m \in cast
  /\ Contains([opensAt |-> OpensAt[m.poll], closesAt |-> ClosesAt[m.poll]], m.at)
  /\ ballot[<<m.poll, m.voter>>] = {}
  /\ ballot' = [ballot EXCEPT ![<<m.poll, m.voter>>] = m.choices]
  /\ UNCHANGED cast

Next == \E m \in Messages : Cast(m) \/ (m.voter \in Voters /\ Record(m))

Spec == Init /\ [][Next]_vars

=============================================================================
