----------------------------- MODULE MCCounting -----------------------------
(* Small instances of Counting.                                              *)
EXTENDS Counting, TLC

CONSTANTS c1, c2, p1, p2, q1, v1, v2, a, b

Vote(v, o, t) == [poll |-> q1, voter |-> v, choices |-> o, at |-> t]

(* Two votes of one voter that disagree, and one of another voter.           *)
MCMessages == { Vote(v1, {a}, 1), Vote(v1, {a, b}, 1), Vote(v2, {b}, 1) }

(* A vote that is owed, one that only a window moved to later contains, one  *)
(* that is too late whatever happens, and one without a voter id.            *)
MCOddMessages ==
  { Vote(v1, {a}, 1), Vote(v2, {b}, 2), Vote(v2, {a}, 3), Vote(BadVoter, {b}, 1) }

OnePartition == [v \in {v1, v2, BadVoter} |-> p1]
TwoPartitions == [v \in {v1, v2, BadVoter} |-> IF v = v2 THEN p2 ELSE p1]
TwoShards == [k \in {q1} \X {v1, v2} |-> IF k[2] = v2 THEN 2 ELSE 1]
MCOpensAt == [q \in {q1} |-> 1]
MCClosesAt == [q \in {q1} |-> 2]

Symmetry == Permutations({c1, c2})

=============================================================================
