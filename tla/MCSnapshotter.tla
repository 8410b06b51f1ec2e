---------------------------- MODULE MCSnapshotter ----------------------------
(* Small instances of Snapshotter.                                           *)
EXTENDS Snapshotter, TLC

CONSTANTS i1, i2, v1, v2, a, b

MCShardOf == [v \in {v1, v2} |-> IF v = v1 THEN 1 ELSE 2]
MultipleChoices == [v \in {v1, v2} |-> IF v = v1 THEN {a, b} ELSE {b}]
Symmetry == Permutations({i1, i2})

=============================================================================
