------------------------------- MODULE MCSoc -------------------------------
(* Small instances of Soc for TLC. *)
EXTENDS Soc

(* All bits clear; bits of either half.                                    *)
MCBytes    == {{}, {0, 2, 5, 7}}
(* Slowest clock; all of the polarity, phase and bit order set.            *)
MCSpiCtrls == {{3, 4}, 0 .. 4}
MCChannels == {{}, {0, 1, 2}}
(* With the clock low and high. *)
MCCopies   == {<<{0, 2, 5, 7}, {}, 0 .. 7, {1, 2}>>, <<{}, {0, 2, 5, 7}, {}, 0 .. 3>>}

=============================================================================
