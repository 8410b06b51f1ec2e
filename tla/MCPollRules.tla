----------------------------- MODULE MCPollRules -----------------------------
(* A small instance of PollRules: three options at most, the shard limits of *)
(* the code.                                                                 *)
EXTENDS PollRules

CONSTANTS g1, g2

Options(n) == [i \in 1 .. n |-> "text"]

Good ==
  [slug |-> g1, question |-> "text", type |-> "multiple", options |-> Options(2),
   minChoices |-> 1, maxChoices |-> 2, opensAt |-> 2, closesAt |-> 3,
   audience |-> 1000000, conversion |-> 30, masters |-> 3]

(* One field wrong at a time.                                                *)
Wrong ==
  { [Good EXCEPT !.slug = "malformed"], [Good EXCEPT !.question = "blank"],
    [Good EXCEPT !.question = "tooLong"], [Good EXCEPT !.type = "other"],
    [Good EXCEPT !.options = <<"text", "blank">>],
    [Good EXCEPT !.options = <<"tooLong", "text">>],
    [Good EXCEPT !.audience = -1], [Good EXCEPT !.conversion = 101],
    [Good EXCEPT !.opensAt = 0], [Good EXCEPT !.closesAt = 2] }

(* Every combination of the bounds on choices.                               *)
Bounds ==
  { [Good EXCEPT !.type = type, !.options = Options(n), !.minChoices = min, !.maxChoices = max] :
      type \in PollType, n \in 0 .. MaxOptions + 1, min \in Byte, max \in Byte }

(* Shard counts around the limit (32 * 500 is the last below it), and        *)
(* audiences that just fill a consumer, a Redis master or all API pods, or   *)
(* of one viewer.                                                            *)
Sizes ==
  { [Good EXCEPT !.masters = m, !.audience = v, !.conversion = c] :
      m \in {-1, 0, 1, 2, 32, 33, 40, 132}, v \in {0, 1, 4500000, 12000000, 21000000}, c \in {0, 30, 100} }

(* A second poll: before, with or after the first.                           *)
Others ==
  { [Good EXCEPT !.slug = g2, !.opensAt = o, !.closesAt = o + 1, !.audience = 20000000] : o \in 2 .. 4 }

MCSpecs == Wrong \cup Bounds \cup Sizes \cup Others

=============================================================================
