----------------------------- MODULE MCPwmWave -----------------------------
(* Small instances of PwmWave for TLC. *)
EXTENDS PwmWave, TLC

CONSTANTS x1, x2, x3, p1, p2

MCPwms  == {x1, x2, x3}
MCPins  == {p1, p2}
MCFreqs == {1}

(* None and most of the range: with make_new's half, 2, the thresholds are *)
(* 0, 1 and 2 of the 3 ticks of a period.                                  *)
MCDuties == {0, 3}

PwmSymmetry == Permutations(MCPwms) \cup Permutations(MCPins)

(* What decides steps and properties: an object that is not allocated has  *)
(* no fields, and the history counts for PWMs that are steady only.        *)
PwmView ==
  <<timer, slots, made, [x \in made |-> pwm[x]], gpio,
    IF steady = {} THEN <<>>
    ELSE <<[x \in steady |-> <<highs[x], lows[x]>>], hit, late>>>>

=============================================================================
