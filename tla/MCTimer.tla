------------------------------ MODULE MCTimer ------------------------------
(* Small instances of Timer for TLC. *)
EXTENDS Timer, TLC

CONSTANTS t1, t2, t3, cb

MCTimers1   == {t1}
MCTimers2   == {t1, t2}
MCTimers3   == {t1, t2, t3}
MCCallbacks == {cb}
Symmetry3   == Permutations(MCTimers3)

(* A callback, or callback=None. *)
MCMaybeCallbacks == {cb, None}

(* 0 (the next tick), 1, 2 and the longest period, TickMod - 1.            *)
MCPeriods013 == {0, 1, 3}
MCPeriods02  == {0, 2}
MCPeriods1   == {1}

=============================================================================
