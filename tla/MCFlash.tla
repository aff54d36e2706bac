------------------------------ MODULE MCFlash ------------------------------
(* Small instances of Flash for TLC: a flash of 8 bytes, the last 6 of them *)
(* three blocks of the filesystem.                                         *)
EXTENDS Flash

MCByte == {0, 1}

(* All blocks and the first that is off the end. *)
MCBlocks  == 0 .. 3
MCOffsets == 0 .. 2

(* Block -1, as a uint32_t. *)
MCMinusOne == {Word - 1}
MCZero     == {0}

=============================================================================
