------------------------------- MODULE Config -------------------------------
(* The durations of internal/platform/config and the rules validate has for  *)
(* them.  A ratio is in percent and a duration in units of the clock; the    *)
(* other settings (addresses, secrets, sampling) reach no other module.      *)
EXTENDS Domain

CONSTANT SafetyMargin     \* drainSafetyMargin, 10 minutes

Configuration ==
  [cmdTimeout : Int, retryBudget : Int, breakerRatio : Int, breakerWindow : Int, workers : Int,
   drainWindow : Int, minLeadTime : Int, refresh : Int,
   dedupTTL : Int, dedupJitter : Int, interval : Int, finalGrace : Int]

ValidRetries(c) ==
  /\ c.cmdTimeout > 0
  /\ c.retryBudget > 0 /\ c.retryBudget < c.drainWindow
  /\ c.breakerRatio > 0 /\ c.breakerRatio <= 100
  /\ c.breakerWindow > 0
  /\ c.workers > 0

ValidDrain(c) == c.drainWindow > 0 /\ c.minLeadTime >= 0 /\ c.refresh > 0

ValidDedup(c) == c.dedupTTL > 0 /\ c.dedupJitter \in 0 .. 50

ValidSnapshots(c) == c.interval > 0 /\ c.finalGrace >= 0

DrainBudget(c) == c.drainWindow + c.finalGrace + SafetyMargin

(* Mutant: the TTL is compared without its jitter.                           *)
DedupInvariantNoJitter(c) ==
  (c.dedupTTL > 0 /\ c.drainWindow > 0) => c.dedupTTL >= DrainBudget(c)

(* validateDedupInvariant: DedupTTLLowerBound, the TTL less its jitter, is   *)
(* at least the drain budget.                                                *)
DedupInvariant(c) ==
  (c.dedupTTL > 0 /\ c.drainWindow > 0) =>
    c.dedupTTL * (100 - c.dedupJitter) >= DrainBudget(c) * 100

ValidConfig(c) ==
  ValidRetries(c) /\ ValidDrain(c) /\ ValidDedup(c) /\ ValidSnapshots(c) /\ DedupInvariant(c)

=============================================================================
