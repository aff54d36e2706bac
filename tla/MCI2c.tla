------------------------------- MODULE MCI2c -------------------------------
(* Small instances of I2c for TLC. *)
EXTENDS I2c

(* A read has one buffer, also an empty one; a write any number, empty     *)
(* ones among them (a scan is a write of nothing).                         *)
MCReadBufs  == {<<0>>, <<1>>, <<3>>}
MCWriteBufs == {<<>>, <<0>>, <<2>>, <<1, 2>>, <<1, 0, 1>>}

(* Too slow for the 16 bits of the prescaler; in range; and so fast that   *)
(* the quotient is 0, and the 1 taken from it makes the bus the slowest.   *)
MCFreqs == {1, 100, 6000000}

=============================================================================
