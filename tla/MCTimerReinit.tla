--------------------------- MODULE MCTimerReinit ---------------------------
(* A small instance of TimerReinit for TLC. *)
EXTENDS TimerReinit

CONSTANTS t1, cb

MCTimers    == {t1}
MCCallbacks == {cb}

(* The counter modulo 8 does not wrap within these. *)
MCPeriods   == {1, 2, 4}

=============================================================================
