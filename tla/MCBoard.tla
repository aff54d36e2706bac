------------------------------ MODULE MCBoard ------------------------------
(* A small instance of Board for TLC: a word holds the first timeout, in   *)
(* cycles, and not the second.                                             *)
EXTENDS Board

MCTimeouts == {2, 5}
MCDelays   == {0, 2}

=============================================================================
