----------------------------- MODULE MCApplying -----------------------------
(* Small instances of Applying.                                              *)
EXTENDS Applying

CONSTANTS w1, w2, v1, v2, d1, d2, d3

(* A vote of v1 and one of v2, and a malformed delivery or a repeat of v1.   *)
MCVoterOf == [d \in Deliveries |-> IF d = d2 THEN v2 ELSE v1]

(* The keys of v1 expire first, those of v2 last.                            *)
MCFrac == [v \in {v1, v2} |-> IF v = v1 THEN -100 ELSE 100]
OneShard == [v \in {v1, v2} |-> 1]

Good ==
  [cmdTimeout |-> 1, retryBudget |-> 1, breakerRatio |-> 50, breakerWindow |-> 1, workers |-> 2,
   drainWindow |-> 2, minLeadTime |-> 0, refresh |-> 1,
   dedupTTL |-> 8, dedupJitter |-> 50, interval |-> 1, finalGrace |-> 1]

(* Two TTLs whose lower bound is just the drain budget of 4, and two that    *)
(* validate refuses.                                                         *)
MCConfigs ==
  { [Good EXCEPT !.dedupTTL = 4, !.dedupJitter = 0], Good,
    [Good EXCEPT !.dedupTTL = 4, !.dedupJitter = 25], [Good EXCEPT !.dedupTTL = 3, !.dedupJitter = 0] }

=============================================================================
