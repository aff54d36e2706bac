------------------------------ MODULE MCPinIrq ------------------------------
(* Small instances of PinIrq for TLC. *)
EXTENDS PinIrq, TLC

CONSTANTS p1, p2, h1, h2

MCPins2     == {p1, p2}
MCHandlers  == {h1, h2}
MCSingle    == {1, 2}
PinSymmetry == Permutations(MCPins2) \cup Permutations(MCHandlers)

=============================================================================
