---------------------------- MODULE TicksProofs ----------------------------
(***************************************************************************)
(* mp_hal_ticks_us never falls behind: for every clock rate, every width   *)
(* of the counters and any interleaving of the reads with the counter and  *)
(* the handler, what it returns is no earlier than its call and at most a  *)
(* millisecond late.                                                       *)
(***************************************************************************)
EXTENDS Ticks, TLAPS

(* Equal in counts, and in milliseconds, modulo the range of the clock.    *)
Same(x, y)   == \E q \in Int : x = y + q * ClockMod
SameMs(x, y) == \E q \in Int : x = y + q * Word

(* The milliseconds that have passed, of which the handler may still owe   *)
(* one, and the counts since the last of them, which came one count before *)
(* the counter starts again.                                               *)
Passed == ticks_ms + (IF pending THEN 1 ELSE 0)
Phase  == IF val = 0 THEN -1 ELSE Period - 1 - val

(* Counts a call may take after MaxCall: two for each of its lines, the    *)
(* line's own and the handler's, and those of interrupts that wait.        *)
Lines  == [val |-> 1, ms |-> 2, ctrl |-> 3, enable |-> 4, adjust |-> 5, sum |-> 6]
Weight == IF ~pending THEN 0 ELSE IF val = 1 THEN 2 ELSE 1

(* The counter and the handler are a clock together, and COUNTFLAG is set  *)
(* while a tick waits, unless the call has just read it.                   *)
ClockInv ==
  /\ val = 0 => pending
  /\ Same(clock, Passed * Period + Phase)
  /\ pending /\ pc \notin {"enable", "adjust"} => countflag

(* Where the call is. *)
CallInv ==
  /\ masked <=> pc \in {"val", "ms", "ctrl", "enable"}
  /\ pc # "return" => CallTime + Weight <= MaxCall + 2 + 2 * Lines[pc]
  /\ masked /\ pending => Phase + 1 <= CallTime

(* The time that ms and c stand for is that of a moment of the call, or a  *)
(* millisecond after one.                                                  *)
Sampled(ms, c, slack) ==
  \E d \in 0 .. CallTime + slack : Same(ms * Period + Period - c, begun + d)

(* k ticks have come since the call read ms; if any, the first of them     *)
(* came during the call.                                                   *)
Missed(ms) ==
  \E k \in Nat : /\ SameMs(Passed, ms + k)
                 /\ k > 0 => (k - 1) * Period + Phase + 1 <= CallTime

(* What the call has read so far. *)
ReadInv ==
  /\ pc \in {"ms", "ctrl"} /\ ~countflag => Sampled(ticks_ms, counter, 0)
  /\ pc \in {"ctrl", "enable"} => milliseconds = ticks_ms
  /\ pc \in {"enable", "adjust"} /\ ~status => Sampled(milliseconds, counter, 0)
  /\ pc = "adjust" => Missed(milliseconds)
  /\ pc = "sum" => Sampled(milliseconds, counter, Period)

TicksInv == TypeOK /\ ClockInv /\ CallInv /\ ReadInv

-----------------------------------------------------------------------------
(* The arithmetic of the two counters, for words of any size.              *)

LEMMA ModType ==
  ASSUME NEW a \in Int, NEW m \in Nat \ {0}
  PROVE  a % m \in 0 .. m - 1
OBVIOUS

LEMMA ModSmall ==
  ASSUME NEW m \in Nat \ {0}, NEW a \in 0 .. m - 1
  PROVE  a % m = a
OBVIOUS

LEMMA ModBelow ==
  ASSUME NEW m \in Nat \ {0}, NEW a \in -m .. -1
  PROVE  a % m = a + m
OBVIOUS

(* A tick makes the time since b one tick longer, also when the counter    *)
(* wraps.                                                                  *)
LEMMA TickElapsed ==
  ASSUME NEW m \in Nat \ {0}, NEW a \in 0 .. m - 1, NEW b \in 0 .. m - 1,
         (a - b) % m < m - 1
  PROVE  (((a + 1) % m) - b) % m = ((a - b) % m) + 1
<1>1. CASE b <= a /\ a < m - 1
  <2>1. (a + 1) % m = a + 1 /\ (a - b) % m = a - b
    BY <1>1, ModSmall
  <2>2. (a + 1 - b) % m = a + 1 - b
    BY <1>1, ModSmall
  <2>. QED BY <2>1, <2>2
<1>2. CASE b <= a /\ a = m - 1
  <2>1. (a + 1) % m = 0 /\ (a - b) % m = a - b
    BY <1>2, ModSmall
  <2>2. b > 0
    BY <1>2, <2>1
  <2>3. 0 - b \in -m .. -1
    BY <2>2
  <2>4. (0 - b) % m = m - b
    BY <2>3, ModBelow
  <2>. QED BY <1>2, <2>1, <2>4
<1>3. CASE a < b
  <2>. a - b \in -m .. -1
    BY <1>3
  <2>. a + 1 \in 0 .. m - 1
    BY <1>3
  <2>1. (a + 1) % m = a + 1 /\ (a - b) % m = a - b + m
    BY ModSmall, ModBelow
  <2>2. CASE a + 1 < b
    <3>. a + 1 - b \in -m .. -1
      BY <2>2
    <3>. QED BY <2>1, ModBelow
  <2>3. CASE a + 1 = b
    BY <1>3, <2>1, <2>3
  <2>. QED BY <1>3, <2>2, <2>3
<1>. QED
  BY <1>1, <1>2, <1>3

-----------------------------------------------------------------------------
(* Arithmetic *)

LEMMA Params ==
  /\ CountsPerUs \in Nat \ {0} /\ UsPerMs \in Nat \ {0, 1} /\ Word \in Nat \ {0}
  /\ MaxCall \in Nat /\ MaxCall + 16 + CountsPerUs <= ClockMod
  /\ Period \in Nat \ {0, 1} /\ ClockMod \in Nat \ {0}
  /\ Word * Period = UsPerMs * ClockMod
<1>1. /\ CountsPerUs \in Nat \ {0} /\ UsPerMs \in Nat \ {0, 1} /\ Word \in Nat \ {0}
      /\ MaxCall \in Nat /\ MaxCall + 16 + CountsPerUs <= ClockMod
  BY TicksAssumption
<1>2. ClockMod \in Nat
  BY <1>1 DEF ClockMod
<1>3. CountsPerUs * UsPerMs \in Nat /\ CountsPerUs * UsPerMs >= UsPerMs
  BY <1>1
<1>4. Word * (CountsPerUs * UsPerMs) = UsPerMs * (CountsPerUs * Word)
  BY <1>1
<1>. QED
  BY <1>1, <1>2, <1>3, <1>4 DEF Period, ClockMod

LEMMA SameReflexive ==
  ASSUME NEW x \in Int
  PROVE  Same(x, x)
<1>1. x = x + 0 * ClockMod
  BY Params
<1>. QED BY <1>1 DEF Same

LEMMA SameShift ==
  ASSUME NEW x \in Int, NEW y \in Int, NEW z \in Int, Same(x, y)
  PROVE  Same(x + z, y + z)
BY Params DEF Same

LEMMA SameTrans ==
  ASSUME NEW x \in Int, NEW y \in Int, NEW z \in Int, Same(x, y), Same(y, z)
  PROVE  Same(x, z)
<1>1. PICK q \in Int : x = y + q * ClockMod
  BY DEF Same
<1>2. PICK r \in Int : y = z + r * ClockMod
  BY DEF Same
<1>3. x = z + (q + r) * ClockMod
  BY <1>1, <1>2, Params
<1>. QED BY <1>3 DEF Same

LEMMA SameSym ==
  ASSUME NEW x \in Int, NEW y \in Int, Same(x, y)
  PROVE  Same(y, x)
<1>1. PICK q \in Int : x = y + q * ClockMod
  BY DEF Same
<1>2. y = x + (-q) * ClockMod
  BY <1>1, Params
<1>3. -q \in Int
  OBVIOUS
<1>. QED BY <1>2, <1>3 DEF Same

LEMMA ModQuotient ==
  ASSUME NEW x \in Int, NEW m \in Nat \ {0}
  PROVE  /\ x \div m \in Int
         /\ x = (x \div m) * m + (x % m)
         /\ x % m \in 0 .. m - 1
OBVIOUS

LEMMA SameMod ==
  ASSUME NEW x \in Int
  PROVE  Same(x % ClockMod, x)
<1>1. x = (x \div ClockMod) * ClockMod + (x % ClockMod) /\ x \div ClockMod \in Int
  BY ModQuotient, Params
<1>2. x % ClockMod = x + (-(x \div ClockMod)) * ClockMod
  BY <1>1, Params, ModType
<1>3. -(x \div ClockMod) \in Int
  BY <1>1
<1>. QED BY <1>2, <1>3 DEF Same

LEMMA SameMsMod ==
  ASSUME NEW x \in Int
  PROVE  SameMs(x % Word, x)
<1>1. x = (x \div Word) * Word + (x % Word) /\ x \div Word \in Int
  BY ModQuotient, Params
<1>2. x % Word = x + (-(x \div Word)) * Word
  BY <1>1, Params, ModType
<1>3. -(x \div Word) \in Int
  BY <1>1
<1>. QED BY <1>2, <1>3 DEF SameMs

LEMMA SameMsShift ==
  ASSUME NEW x \in Int, NEW y \in Int, NEW z \in Int, SameMs(x, y)
  PROVE  SameMs(x + z, y + z)
BY Params DEF SameMs

LEMMA SameMsTrans ==
  ASSUME NEW x \in Int, NEW y \in Int, NEW z \in Int, SameMs(x, y), SameMs(y, z)
  PROVE  SameMs(x, z)
<1>1. PICK q \in Int : x = y + q * Word
  BY DEF SameMs
<1>2. PICK r \in Int : y = z + r * Word
  BY DEF SameMs
<1>3. x = z + (q + r) * Word
  BY <1>1, <1>2, Params
<1>. QED BY <1>3 DEF SameMs

(* Milliseconds that are equal are equal counts. *)
LEMMA MsInCounts ==
  ASSUME NEW x \in Int, NEW y \in Int, SameMs(x, y)
  PROVE  Same(x * Period, y * Period)
<1>1. PICK q \in Int : x = y + q * Word
  BY DEF SameMs
<1>2. x * Period = y * Period + q * (Word * Period)
  BY <1>1, Params
<1>3. q * (Word * Period) = (q * UsPerMs) * ClockMod
  BY Params
<1>4. q * UsPerMs \in Int
  BY Params
<1>. QED BY <1>2, <1>3, <1>4 DEF Same

LEMMA DivUnique ==
  ASSUME NEW n \in Int, NEW m \in Nat \ {0}, NEW q \in Int, NEW r \in 0 .. m - 1,
         n = m * q + r
  PROVE  n \div m = q
OBVIOUS

LEMMA DivShift ==
  ASSUME NEW a \in Int, NEW b \in Int, NEW m \in Nat \ {0}
  PROVE  (a * m + b) \div m = a + (b \div m)
<1>1. b = (b \div m) * m + (b % m) /\ b \div m \in Int /\ b % m \in 0 .. m - 1
  BY ModQuotient
<1>2. a * m + b = m * (a + (b \div m)) + (b % m)
  BY <1>1
<1>3. a + (b \div m) \in Int /\ a * m + b \in Int
  BY <1>1
<1>. QED BY <1>1, <1>2, <1>3, DivUnique

LEMMA DivMonotonic ==
  ASSUME NEW a \in Int, NEW b \in Int, NEW m \in Nat \ {0}, a <= b
  PROVE  a \div m <= b \div m
OBVIOUS

LEMMA ModUnique ==
  ASSUME NEW x \in Int, NEW y \in Int, NEW m \in Nat \ {0}, NEW q \in Int,
         x = y + q * m, y \in 0 .. m - 1
  PROVE  x % m = y
OBVIOUS

-----------------------------------------------------------------------------
(* Time moves on by a count *)

(* What the clock does in every step: the handler has counted a tick, or   *)
(* none is missed.                                                         *)
Moves ==
  /\ Count
  /\ \/ Raise /\ ticks_ms' = ticks_ms /\ ~(pending /\ val = 1)
     \/ pending /\ pending' = (val = 1) /\ ticks_ms' = (ticks_ms + 1) % Word

LEMMA MovesTypes ==
  ASSUME TypeOK, Moves
  PROVE  /\ val \in 0 .. Period - 1 /\ val' \in 0 .. Period - 1
         /\ clock \in 0 .. ClockMod - 1 /\ clock' \in 0 .. ClockMod - 1
         /\ ticks_ms \in 0 .. Word - 1 /\ ticks_ms' \in 0 .. Word - 1
         /\ pending \in BOOLEAN /\ pending' \in BOOLEAN
         /\ Passed \in Int /\ Passed' \in Int /\ Phase \in Int /\ Phase' \in Int
<1>1. val \in 0 .. Period - 1 /\ clock \in 0 .. ClockMod - 1 /\ ticks_ms \in 0 .. Word - 1
      /\ pending \in BOOLEAN
  BY DEF TypeOK
<1>2. val' \in 0 .. Period - 1
  BY <1>1, Params DEF Moves, Count
<1>3. clock' \in 0 .. ClockMod - 1
  BY <1>1, Params, ModType DEF Moves, Count
<1>4. ticks_ms' \in 0 .. Word - 1
  BY <1>1, Params, ModType DEF Moves
<1>5. pending' \in BOOLEAN
  BY <1>1 DEF Moves, Raise
<1>. QED
  BY <1>1, <1>2, <1>3, <1>4, <1>5, Params DEF Passed, Phase

LEMMA MovesPhase ==
  ASSUME TypeOK, Moves
  PROVE  /\ val = 1 => Phase = Period - 2 /\ Phase' = -1 /\ pending' /\ val' = 0
         /\ val # 1 => Phase' = Phase + 1
         /\ Phase >= -1 /\ Phase' >= -1
BY MovesTypes, Params DEF Moves, Count, Raise, Phase

LEMMA MovesPassed ==
  ASSUME TypeOK, Moves
  PROVE  SameMs(Passed', Passed + (IF val = 1 THEN 1 ELSE 0))
<1>. /\ ticks_ms \in Int /\ ticks_ms' \in Int /\ Word \in Int
     /\ pending \in BOOLEAN /\ pending' \in BOOLEAN
  BY MovesTypes, Params
<1>. DEFINE more == IF val = 1 THEN 1 ELSE 0
<1>. more \in Int
  OBVIOUS
<1>1. CASE Raise /\ ticks_ms' = ticks_ms /\ ~(pending /\ val = 1)
  <2>1. pending' <=> pending \/ val = 1
    BY <1>1 DEF Raise
  <2>2. Passed' = Passed + more
    BY <1>1, <2>1 DEF Passed
  <2>3. Passed' = Passed + more + 0 * Word
    BY <2>2, MovesTypes
  <2>. QED BY <2>3 DEF SameMs
<1>2. CASE pending /\ pending' = (val = 1) /\ ticks_ms' = (ticks_ms + 1) % Word
  <2>1. SameMs(ticks_ms', ticks_ms + 1)
    BY <1>2, SameMsMod
  <2>2. PICK q \in Int : ticks_ms' = ticks_ms + 1 + q * Word
    BY <2>1 DEF SameMs
  <2>3. pending' <=> val = 1
    BY <1>2
  <2>4. Passed' = ticks_ms' + more /\ Passed = ticks_ms + 1
    BY <1>2, <2>3 DEF Passed
  <2>5. Passed' = Passed + more + q * Word
    <3>. HIDE DEF more
    <3>. QED BY <2>2, <2>4, MovesTypes
  <2>. QED BY <2>5 DEF SameMs
<1>. QED
  BY <1>1, <1>2 DEF Moves

LEMMA MovesClock ==
  ASSUME TypeOK, ClockInv, Moves
  PROVE  Same(clock', Passed' * Period + Phase') /\ (val' = 0 => pending')
<1>. /\ Passed \in Int /\ Passed' \in Int /\ Phase \in Int /\ Phase' \in Int
     /\ clock \in Int /\ clock' \in Int /\ Period \in Int
     /\ val \in 0 .. Period - 1 /\ pending \in BOOLEAN
  BY MovesTypes, Params
<1>. DEFINE more == IF val = 1 THEN 1 ELSE 0
            P1 == (Passed + more) * Period
            P2 == Passed' * Period
<1>. P1 \in Int /\ P2 \in Int /\ Passed * Period \in Int
  OBVIOUS
<1>1. Same(clock', clock + 1)
  BY SameMod DEF Moves, Count
<1>2. Same(clock + 1, Passed * Period + Phase + 1)
  BY SameShift DEF ClockInv
<1>3. Passed * Period + Phase + 1 = P1 + Phase'
  <2>1. CASE val = 1
    BY <2>1, MovesPhase
  <2>2. CASE val # 1
    BY <2>2, MovesPhase
  <2>. QED BY <2>1, <2>2
<1>4. Same(P2, P1)
  BY MovesPassed, MsInCounts
<1>5. Same(P1, P2)
  BY <1>4, SameSym
<1>6. Same(P1 + Phase', P2 + Phase')
  BY <1>5, SameShift
<1>. HIDE DEF P1, P2
<1>7. Same(clock', P2 + Phase')
  <2>1. Same(clock + 1, P1 + Phase')
    BY <1>2, <1>3
  <2>2. Same(clock', P1 + Phase')
    BY <1>1, <2>1, SameTrans
  <2>. QED BY <2>2, <1>6, SameTrans
<1>8. val' = 0 => pending'
  <2>1. val' = 0 => val = 1
    BY Params DEF Moves, Count
  <2>. QED BY <2>1, MovesPhase
<1>. QED
  BY <1>7, <1>8 DEF P2

LEMMA MovesWeight ==
  ASSUME TypeOK, Moves
  PROVE  /\ Weight \in 0 .. 2 /\ Weight' \in 0 .. 2
         /\ Raise /\ ~(pending /\ val = 1) => Weight' <= Weight + 1
         /\ pending /\ pending' = (val = 1) => Weight' <= Weight - 1
BY MovesTypes, Params DEF Moves, Count, Raise, Weight

(* No call is as long as the range of the clock. *)
LEMMA CallIsShort ==
  ASSUME TypeOK, CallInv, pc # "return"
  PROVE  CallTime \in 0 .. ClockMod - 2 - CountsPerUs
<1>1. CallTime \in 0 .. ClockMod - 1
  <2>1. clock - begun \in Int
    BY Params DEF TypeOK
  <2>. QED BY <2>1, ModType, Params DEF CallTime
<1>2. Weight \in 0 .. 2 /\ Lines[pc] \in 1 .. 6
  BY DEF TypeOK, Weight, Lines
<1>3. CallTime + Weight <= MaxCall + 2 + 2 * Lines[pc]
  BY DEF CallInv
<1>. QED
  BY <1>1, <1>2, <1>3, Params

LEMMA CallGoesOn ==
  ASSUME TypeOK, CallInv, pc # "return", Moves
  PROVE  /\ CallTime \in Nat
         /\ (clock' - begun) % ClockMod = CallTime + 1
         /\ begun' = begun => CallTime' = CallTime + 1
<1>1. CallTime \in 0 .. ClockMod - 2 - CountsPerUs
  BY CallIsShort
<1>2. clock \in 0 .. ClockMod - 1 /\ begun \in 0 .. ClockMod - 1
  BY DEF TypeOK
<1>3. (((clock + 1) % ClockMod) - begun) % ClockMod = ((clock - begun) % ClockMod) + 1
  BY <1>1, <1>2, Params, TickElapsed DEF CallTime
<1>. QED
  BY <1>1, <1>3 DEF CallTime, Moves, Count

(* The clock is the time the call began and the time it has taken. *)
LEMMA CallClock ==
  ASSUME TypeOK
  PROVE  Same(clock, begun + CallTime) /\ CallTime \in Nat
<1>. clock \in Int /\ begun \in Int
  BY Params DEF TypeOK
<1>1. CallTime \in Nat
  BY ModType, Params DEF CallTime
<1>2. Same(CallTime, clock - begun)
  BY SameMod DEF CallTime
<1>3. PICK q \in Int : CallTime = clock - begun + q * ClockMod
  BY <1>2 DEF Same
<1>4. clock = begun + CallTime + (-q) * ClockMod /\ -q \in Int
  BY <1>1, <1>3, Params
<1>. QED
  BY <1>1, <1>4 DEF Same

-----------------------------------------------------------------------------
(* What a count does to each part of the invariant *)

LEMMA MovesClockInv ==
  ASSUME TypeOK, ClockInv, Moves, pending' /\ pc' \notin {"enable", "adjust"} => countflag'
  PROVE  ClockInv'
BY MovesClock DEF ClockInv

(* A tick that waits while the call masks it came during the call. *)
LEMMA MovesMasked ==
  ASSUME TypeOK, CallInv, Moves, pc # "return", begun' = begun,
         masked, ~(pending /\ val = 1), Raise
  PROVE  pending' => Phase' + 1 <= CallTime'
<1>1. CallTime \in Nat /\ CallTime' = CallTime + 1
  BY CallGoesOn
<1>2. CASE val = 1
  <2>1. Phase' = -1
    BY <1>2, MovesPhase
  <2>. QED BY <1>1, <2>1
<1>3. CASE val # 1
  <2>1. pending' <=> pending
    BY <1>3 DEF Raise
  <2>2. pending => Phase + 1 <= CallTime
    BY DEF CallInv
  <2>3. Phase' = Phase + 1 /\ Phase \in Int
    BY <1>3, MovesPhase, MovesTypes
  <2>. QED BY <1>1, <2>1, <2>2, <2>3
<1>. QED
  BY <1>2, <1>3

(* A sample stays one while the call goes on. *)
LEMMA SampledKept ==
  ASSUME TypeOK, CallInv, pc # "return", Moves, begun' = begun,
         NEW m \in Int, NEW c \in Int, NEW slack \in Nat, NEW slack2 \in Nat,
         slack <= slack2, Sampled(m, c, slack)
  PROVE  \E d \in 0 .. CallTime' + slack2 :
            Same(m * Period + Period - c, begun' + d)
<1>1. PICK d \in 0 .. CallTime + slack : Same(m * Period + Period - c, begun + d)
  BY DEF Sampled
<1>2. CallTime \in Nat /\ CallTime' = CallTime + 1
  BY CallGoesOn
<1>3. d \in 0 .. CallTime' + slack2
  BY <1>2
<1>. QED
  BY <1>1, <1>3

LEMMA SamplesKept ==
  ASSUME TypeOK, CallInv, pc # "return", Moves, begun' = begun, counter' = counter
  PROVE  /\ ticks_ms' = ticks_ms /\ Sampled(ticks_ms, counter, 0)
              => Sampled(ticks_ms, counter, 0)'
         /\ milliseconds' = milliseconds /\ Sampled(milliseconds, counter, 0)
              => Sampled(milliseconds, counter, 0)' /\ Sampled(milliseconds, counter, Period)'
         /\ milliseconds' = milliseconds /\ Sampled(milliseconds, counter, Period)
              => Sampled(milliseconds, counter, Period)'
<1>. milliseconds \in Int /\ counter \in Int /\ ticks_ms \in Int /\ Period \in Nat
  BY Params DEF TypeOK
<1>1. Sampled(ticks_ms, counter, 0)
        => \E d \in 0 .. CallTime' + 0 : Same(ticks_ms * Period + Period - counter, begun' + d)
  BY SampledKept
<1>2. Sampled(milliseconds, counter, 0)
        => \E d \in 0 .. CallTime' + 0 :
              Same(milliseconds * Period + Period - counter, begun' + d)
  BY SampledKept
<1>3. Sampled(milliseconds, counter, 0) \/ Sampled(milliseconds, counter, Period)
        => \E d \in 0 .. CallTime' + Period :
              Same(milliseconds * Period + Period - counter, begun' + d)
  BY SampledKept
<1>. QED
  BY <1>1, <1>2, <1>3 DEF Sampled

(* A tick more is one more to have missed. *)
LEMMA MissedKept ==
  ASSUME TypeOK, CallInv, pc # "return", Moves, begun' = begun, NEW m \in Int, Missed(m)
  PROVE  \E k \in Nat : /\ SameMs(Passed', m + k)
                        /\ k > 0 => (k - 1) * Period + Phase' + 1 <= CallTime'
<1>1. PICK k \in Nat : /\ SameMs(Passed, m + k)
                       /\ k > 0 => (k - 1) * Period + Phase + 1 <= CallTime
  BY DEF Missed
<1>2. CallTime \in Nat /\ CallTime' = CallTime + 1
  BY CallGoesOn
<1>3. /\ Passed \in Int /\ Passed' \in Int /\ Phase \in Int /\ Phase' \in Int
      /\ Period \in Nat \ {0} /\ Word \in Nat
  BY MovesTypes, Params
<1>4. PICK q \in Int : Passed = m + k + q * Word
  BY <1>1 DEF SameMs
<1>5. CASE val = 1
  <2>1. PICK r \in Int : Passed' = Passed + 1 + r * Word
    BY <1>5, MovesPassed DEF SameMs
  <2>2. Passed' = m + (k + 1) + (q + r) * Word
    BY <1>3, <1>4, <2>1
  <2>3. Phase = Period - 2 /\ Phase' = -1
    BY <1>5, MovesPhase
  <2>4. k * Period <= CallTime + 1
    <3>1. CASE k = 0
      BY <1>2, <1>3, <3>1
    <3>2. CASE k > 0
      <4>1. (k - 1) * Period = k * Period - Period
        BY <1>3
      <4>. QED BY <1>1, <1>2, <1>3, <2>3, <3>2, <4>1
    <3>. QED BY <3>1, <3>2
  <2>5. k + 1 \in Nat /\ (k + 1) - 1 = k /\ q + r \in Int
    OBVIOUS
  <2>6. SameMs(Passed', m + (k + 1))
    BY <2>2, <2>5 DEF SameMs
  <2>7. ((k + 1) - 1) * Period + Phase' + 1 <= CallTime'
    BY <1>2, <1>3, <2>3, <2>4, <2>5
  <2>. QED BY <2>5, <2>6, <2>7
<1>6. CASE val # 1
  <2>1. PICK r \in Int : Passed' = Passed + 0 + r * Word
    BY <1>6, MovesPassed DEF SameMs
  <2>2. Passed' = m + k + (q + r) * Word
    BY <1>3, <1>4, <2>1
  <2>3. SameMs(Passed', m + k)
    BY <2>2 DEF SameMs
  <2>4. Phase' = Phase + 1
    BY <1>6, MovesPhase
  <2>5. k > 0 => (k - 1) * Period + Phase' + 1 <= CallTime'
    <3>1. (k - 1) * Period \in Int
      BY <1>3
    <3>. QED BY <1>1, <1>2, <1>3, <2>4, <3>1
  <2>. QED BY <2>3, <2>5
<1>. QED
  BY <1>5, <1>6

-----------------------------------------------------------------------------
(* Every step keeps the invariant *)

LEMMA StepWait ==
  ASSUME TicksInv, Wait
  PROVE  TicksInv'
<1>. Moves /\ TypeOK /\ ClockInv /\ CallInv /\ ReadInv
  BY DEF TicksInv, Wait, Moves
<1>0. /\ UNCHANGED <<masked, ticks_ms, pc, counter, milliseconds, status, us, begun>>
      /\ countflag' = (countflag \/ val = 1) /\ pending' = (pending \/ val = 1)
  BY DEF Wait, Flag, Raise, locals
<1>1. TypeOK'
  BY <1>0, MovesTypes DEF TypeOK
<1>2. ClockInv'
  <2>1. pending' /\ pc' \notin {"enable", "adjust"} => countflag'
    BY <1>0 DEF ClockInv
  <2>. QED BY <2>1, MovesClockInv
<1>3. CallInv'
  <2>1. masked' <=> pc' \in {"val", "ms", "ctrl", "enable"}
    BY <1>0 DEF CallInv
  <2>2. ASSUME pc' # "return"
        PROVE  CallTime' + Weight' <= MaxCall + 2 + 2 * Lines[pc']
    <3>1. CallTime < MaxCall
      BY <1>0, <2>2 DEF Wait
    <3>2. CallTime \in Nat /\ CallTime' = CallTime + 1
      BY <1>0, <2>2, CallGoesOn
    <3>3. Lines[pc'] \in 1 .. 6
      BY <1>1, <2>2 DEF TypeOK, Lines
    <3>. QED BY <3>1, <3>2, <3>3, MovesWeight, Params
  <2>3. masked' /\ pending' => Phase' + 1 <= CallTime'
    <3>1. masked => pc # "return"
      BY DEF CallInv
    <3>. QED BY <1>0, <3>1, MovesMasked DEF Wait
  <2>. QED BY <2>1, <2>2, <2>3 DEF CallInv
<1>4. ReadInv'
  <2>. milliseconds \in Int /\ counter \in Int /\ ticks_ms \in Int
    BY Params DEF TypeOK
  <2>1. pc' \in {"ms", "ctrl"} /\ ~countflag' => Sampled(ticks_ms, counter, 0)'
    BY <1>0, SamplesKept DEF ReadInv
  <2>2. pc' \in {"ctrl", "enable"} => milliseconds' = ticks_ms'
    BY <1>0 DEF ReadInv
  <2>3. pc' \in {"enable", "adjust"} /\ ~status' => Sampled(milliseconds, counter, 0)'
    BY <1>0, SamplesKept DEF ReadInv
  <2>4. pc' = "adjust" => Missed(milliseconds)'
    BY <1>0, MissedKept DEF ReadInv, Missed
  <2>5. pc' = "sum" => Sampled(milliseconds, counter, Period)'
    BY <1>0, SamplesKept DEF ReadInv
  <2>. QED BY <2>1, <2>2, <2>3, <2>4, <2>5 DEF ReadInv
<1>. QED BY <1>1, <1>2, <1>3, <1>4 DEF TicksInv

(* The handler runs only where the call does not mask it. *)
LEMMA StepSysTick_Handler ==
  ASSUME TicksInv, SysTick_Handler
  PROVE  TicksInv'
<1>. Moves /\ TypeOK /\ ClockInv /\ CallInv /\ ReadInv
  BY DEF TicksInv, SysTick_Handler, Moves
<1>0. /\ UNCHANGED <<masked, pc, counter, milliseconds, status, us, begun>>
      /\ ~masked /\ pending /\ pending' = (val = 1)
      /\ countflag' = (countflag \/ val = 1)
  BY DEF SysTick_Handler, Flag, locals
<1>1. TypeOK'
  BY <1>0, MovesTypes DEF TypeOK
<1>2. ClockInv'
  BY <1>0, MovesClockInv
<1>3. CallInv'
  <2>1. ASSUME pc' # "return"
        PROVE  CallTime' + Weight' <= MaxCall + 2 + 2 * Lines[pc']
    <3>1. CallTime \in Nat /\ CallTime' = CallTime + 1
      BY <1>0, <2>1, CallGoesOn
    <3>2. CallTime + Weight <= MaxCall + 2 + 2 * Lines[pc]
      BY <1>0, <2>1 DEF CallInv
    <3>3. Lines[pc] \in 1 .. 6
      BY <1>0, <2>1 DEF TypeOK, Lines
    <3>. QED BY <1>0, <3>1, <3>2, <3>3, MovesWeight, Params
  <2>. QED BY <1>0, <2>1 DEF CallInv
<1>4. ReadInv'
  <2>1. pc' \notin {"val", "ms", "ctrl", "enable"}
    BY <1>0 DEF CallInv
  <2>2. pc' = "adjust" /\ ~status' => Sampled(milliseconds, counter, 0)'
    BY <1>0, SamplesKept DEF ReadInv
  <2>3. pc' = "adjust" => Missed(milliseconds)'
    <3>. milliseconds \in Int
      BY Params DEF TypeOK
    <3>. QED BY <1>0, MissedKept DEF ReadInv, Missed
  <2>4. pc' = "sum" => Sampled(milliseconds, counter, Period)'
    BY <1>0, SamplesKept DEF ReadInv
  <2>. QED BY <2>1, <2>2, <2>3, <2>4 DEF ReadInv
<1>. QED BY <1>1, <1>2, <1>3, <1>4 DEF TicksInv

LEMMA LineMoves ==
  ASSUME NEW from, NEW to, Line(from, to), ticks_ms' = ticks_ms
  PROVE  Moves /\ Raise /\ ~(pending /\ val = 1) /\ ~(pending /\ ~masked)
BY DEF Line, Moves

(* What the lines from the second to the last but one do to the call. *)
LEMMA LineInCall ==
  ASSUME TypeOK, CallInv, NEW from, NEW to, Line(from, to), ticks_ms' = ticks_ms,
         begun' = begun, from \in DOMAIN Lines, to \in DOMAIN Lines,
         Lines[to] = Lines[from] + 1
  PROVE  /\ pc # "return" /\ pc' # "return"
         /\ CallTime' + Weight' <= MaxCall + 2 + 2 * Lines[pc']
         /\ masked /\ pending' => Phase' + 1 <= CallTime'
<1>1. pc = from /\ pc' = to /\ pc # "return" /\ pc' # "return"
  BY DEF Line, Lines
<1>2. Moves /\ Raise /\ ~(pending /\ val = 1)
  BY LineMoves
<1>3. CallTime \in Nat /\ CallTime' = CallTime + 1
  BY <1>1, <1>2, CallGoesOn
<1>4. Lines[from] \in 1 .. 6
  BY DEF Lines
<1>5. CallTime + Weight <= MaxCall + 2 + 2 * Lines[from]
  BY <1>1 DEF CallInv
<1>6. CallTime' + Weight' <= MaxCall + 2 + 2 * Lines[to]
  BY <1>2, <1>3, <1>4, <1>5, MovesWeight, Params
<1>. QED
  BY <1>1, <1>2, <1>6, MovesMasked

LEMMA StepDisableIrq ==
  ASSUME TicksInv, DisableIrq
  PROVE  TicksInv'
<1>. TypeOK /\ ClockInv /\ CallInv
  BY DEF TicksInv
<1>0. /\ pc' = "val" /\ pc = "return" /\ masked' /\ masked' = TRUE /\ begun' = clock
      /\ UNCHANGED <<ticks_ms, counter, milliseconds, status, us>>
      /\ Line("return", "val") /\ countflag' = (countflag \/ val = 1)
  BY DEF DisableIrq, Line, Flag, locals
<1>a. Moves /\ Raise /\ ~(pending /\ val = 1) /\ ~(pending /\ ~masked)
  BY <1>0, LineMoves
<1>1. TypeOK'
  BY <1>0, <1>a, MovesTypes DEF TypeOK
<1>2. ClockInv'
  <2>1. pending' => countflag'
    BY <1>0, <1>a DEF Raise, ClockInv
  <2>. QED BY <1>a, <2>1, MovesClockInv
<1>3. CallInv'
  <2>1. CallTime' = 1
    <3>. clock \in 0 .. ClockMod - 1
      BY DEF TypeOK
    <3>1. clock - clock = 0 /\ 0 % ClockMod = 0 /\ 0 < ClockMod - 1
      BY Params
    <3>2. (((clock + 1) % ClockMod) - clock) % ClockMod = ((clock - clock) % ClockMod) + 1
      BY <3>1, Params, TickElapsed
    <3>3. CallTime' = (((clock + 1) % ClockMod) - clock) % ClockMod
      BY <1>0, <1>a DEF CallTime, Moves, Count
    <3>. QED BY <3>1, <3>2, <3>3
  <2>2. Lines[pc'] = 1
    BY <1>0 DEF Lines
  <2>3. CallTime' + Weight' <= MaxCall + 2 + 2 * Lines[pc']
    BY <1>a, <2>1, <2>2, MovesWeight, Params
  <2>4. pending' => Phase' + 1 <= CallTime'
    <3>1. ~masked
      BY <1>0 DEF CallInv
    <3>2. pending' => val = 1
      BY <1>a, <3>1 DEF Raise
    <3>. QED BY <1>a, <2>1, <3>2, MovesPhase
  <2>. QED BY <1>0, <2>3, <2>4 DEF CallInv
<1>4. ReadInv'
  BY <1>0 DEF ReadInv
<1>. QED BY <1>1, <1>2, <1>3, <1>4 DEF TicksInv

(* With COUNTFLAG clear no tick waits, and the counter has not started     *)
(* again: the value read and the milliseconds are those of this moment.    *)
LEMMA StepReadVal ==
  ASSUME TicksInv, ReadVal
  PROVE  TicksInv'
<1>. TypeOK /\ ClockInv /\ CallInv
  BY DEF TicksInv
<1>0. /\ pc' = "ms" /\ pc = "val" /\ counter' = val
      /\ UNCHANGED <<masked, ticks_ms, milliseconds, status, us, begun>>
      /\ Line("val", "ms") /\ countflag' = (countflag \/ val = 1)
  BY DEF ReadVal, Line, Flag
<1>a. Moves /\ Raise /\ ~(pending /\ val = 1)
  BY <1>0, LineMoves
<1>b. /\ CallTime' + Weight' <= MaxCall + 2 + 2 * Lines[pc']
      /\ masked /\ pending' => Phase' + 1 <= CallTime'
  BY <1>0, LineInCall DEF Lines
<1>1. TypeOK'
  BY <1>0, <1>a, MovesTypes DEF TypeOK
<1>2. ClockInv'
  <2>1. pending' => countflag'
    BY <1>0, <1>a DEF Raise, ClockInv
  <2>. QED BY <1>a, <2>1, MovesClockInv
<1>3. CallInv'
  BY <1>0, <1>b DEF CallInv
<1>4. ASSUME ~countflag'
      PROVE  Sampled(ticks_ms, counter, 0)'
  <2>1. ~pending /\ val # 0
    BY <1>0, <1>4 DEF ClockInv
  <2>2. /\ val \in Int /\ clock \in Int /\ ticks_ms \in Int /\ begun \in Int
        /\ Period \in Nat /\ ClockMod \in Nat
    BY Params DEF TypeOK
  <2>3. Passed = ticks_ms /\ Phase = Period - 1 - val
    BY <2>1, <2>2 DEF Passed, Phase
  <2>4. PICK q \in Int : clock = ticks_ms * Period + (Period - 1 - val) + q * ClockMod
    BY <2>3 DEF ClockInv, Same
  <2>5. PICK r \in Int : clock = begun + CallTime + r * ClockMod
    BY CallClock DEF Same
  <2>6. CallTime \in Nat /\ CallTime' = CallTime + 1
    BY <1>0, <1>a, CallGoesOn
  <2>7. ticks_ms * Period + Period - val = begun + CallTime' + (r - q) * ClockMod
    <3>1. (r - q) * ClockMod = r * ClockMod - q * ClockMod
      BY <2>2
    <3>2. ticks_ms * Period \in Int /\ r * ClockMod \in Int /\ q * ClockMod \in Int
      BY <2>2
    <3>. QED BY <2>2, <2>4, <2>5, <2>6, <3>1, <3>2
  <2>8. r - q \in Int /\ CallTime' \in 0 .. CallTime' + 0
    BY <2>6
  <2>9. Same(ticks_ms * Period + Period - val, begun + CallTime')
    BY <2>7, <2>8 DEF Same
  <2>. QED BY <1>0, <2>8, <2>9 DEF Sampled
<1>5. ReadInv'
  BY <1>0, <1>4 DEF ReadInv
<1>. QED BY <1>1, <1>2, <1>3, <1>5 DEF TicksInv

LEMMA StepReadMs ==
  ASSUME TicksInv, ReadMs
  PROVE  TicksInv'
<1>. TypeOK /\ ClockInv /\ CallInv /\ ReadInv
  BY DEF TicksInv
<1>0. /\ pc' = "ctrl" /\ pc = "ms" /\ milliseconds' = ticks_ms
      /\ UNCHANGED <<masked, ticks_ms, counter, status, us, begun>>
      /\ Line("ms", "ctrl") /\ countflag' = (countflag \/ val = 1)
  BY DEF ReadMs, Line, Flag
<1>a. Moves /\ Raise /\ ~(pending /\ val = 1)
  BY <1>0, LineMoves
<1>b. /\ CallTime' + Weight' <= MaxCall + 2 + 2 * Lines[pc']
      /\ masked /\ pending' => Phase' + 1 <= CallTime'
  BY <1>0, LineInCall DEF Lines
<1>1. TypeOK'
  BY <1>0, <1>a, MovesTypes DEF TypeOK
<1>2. ClockInv'
  <2>1. pending' => countflag'
    BY <1>0, <1>a DEF Raise, ClockInv
  <2>. QED BY <1>a, <2>1, MovesClockInv
<1>3. CallInv'
  BY <1>0, <1>b DEF CallInv
<1>4. ~countflag' => Sampled(ticks_ms, counter, 0)'
  BY <1>0, <1>a, SamplesKept DEF ReadInv
<1>5. ReadInv'
  BY <1>0, <1>4 DEF ReadInv
<1>. QED BY <1>1, <1>2, <1>3, <1>5 DEF TicksInv

LEMMA StepReadCtrl ==
  ASSUME TicksInv, ReadCtrl
  PROVE  TicksInv'
<1>. TypeOK /\ ClockInv /\ CallInv /\ ReadInv
  BY DEF TicksInv
<1>0. /\ pc' = "enable" /\ pc = "ctrl" /\ status' = countflag
      /\ UNCHANGED <<masked, ticks_ms, counter, milliseconds, us, begun>>
      /\ Line("ctrl", "enable") /\ countflag' = (val = 1)
  BY DEF ReadCtrl, Line
<1>a. Moves /\ Raise /\ ~(pending /\ val = 1)
  BY <1>0, LineMoves
<1>b. /\ CallTime' + Weight' <= MaxCall + 2 + 2 * Lines[pc']
      /\ masked /\ pending' => Phase' + 1 <= CallTime'
  BY <1>0, LineInCall DEF Lines
<1>1. TypeOK'
  BY <1>0, <1>a, MovesTypes DEF TypeOK
<1>2. ClockInv'
  BY <1>0, <1>a, MovesClockInv
<1>3. CallInv'
  BY <1>0, <1>b DEF CallInv
<1>4. ReadInv'
  <2>1. milliseconds = ticks_ms /\ (~countflag => Sampled(ticks_ms, counter, 0))
    BY <1>0 DEF ReadInv
  <2>2. ~countflag => Sampled(milliseconds, counter, 0)
    BY <2>1 DEF Sampled
  <2>3. ~countflag => Sampled(milliseconds, counter, 0)'
    BY <1>0, <1>a, <2>2, SamplesKept
  <2>. QED BY <1>0, <2>1, <2>3 DEF ReadInv
<1>. QED BY <1>1, <1>2, <1>3, <1>4 DEF TicksInv

(* Before the interrupts are enabled the handler has not counted: a tick   *)
(* that waits is the only one the call can have missed.                    *)
LEMMA StepEnableIrq ==
  ASSUME TicksInv, EnableIrq
  PROVE  TicksInv'
<1>. TypeOK /\ ClockInv /\ CallInv /\ ReadInv
  BY DEF TicksInv
<1>0. /\ pc' = "adjust" /\ pc = "enable" /\ ~masked'
      /\ masked' \in BOOLEAN
      /\ UNCHANGED <<ticks_ms, counter, milliseconds, status, us, begun>>
      /\ Line("enable", "adjust") /\ countflag' = (countflag \/ val = 1)
  BY DEF EnableIrq, Line, Flag, locals
<1>a. Moves /\ Raise /\ ~(pending /\ val = 1)
  BY <1>0, LineMoves
<1>b. /\ CallTime' + Weight' <= MaxCall + 2 + 2 * Lines[pc']
      /\ masked /\ pending' => Phase' + 1 <= CallTime'
  BY <1>0, LineInCall DEF Lines
<1>1. TypeOK'
  BY <1>0, <1>a, MovesTypes DEF TypeOK
<1>2. ClockInv'
  BY <1>0, <1>a, MovesClockInv
<1>3. CallInv'
  BY <1>0, <1>b DEF CallInv
<1>4. ReadInv'
  <2>1. ~status => Sampled(milliseconds, counter, 0)'
    BY <1>0, <1>a, SamplesKept DEF ReadInv
  <2>2. Missed(milliseconds)'
    <3>. DEFINE k == IF pending' THEN 1 ELSE 0
    <3>1. masked /\ milliseconds = ticks_ms
      BY <1>0 DEF CallInv, ReadInv
    <3>2. Passed' = milliseconds + k + 0 * Word /\ k \in Nat
      BY <1>0, <3>1, Params DEF Passed, TypeOK
    <3>3. k > 0 => (k - 1) * Period + Phase' + 1 <= CallTime'
      <4>1. 0 * Period = 0 /\ Phase' \in Int
        BY <1>a, Params, MovesTypes
      <4>. QED BY <1>b, <3>1, <4>1
    <3>4. SameMs(Passed', milliseconds' + k)
      <4>. HIDE DEF k
      <4>. QED BY <1>0, <3>2 DEF SameMs
    <3>. QED BY <3>2, <3>3, <3>4 DEF Missed
  <2>. QED BY <1>0, <2>1, <2>2 DEF ReadInv
<1>. QED BY <1>1, <1>2, <1>3, <1>4 DEF TicksInv

(* With the handler's tick counted the new look at the counter is the time *)
(* of this moment and, of the k ticks missed, one is added: that is at     *)
(* most a millisecond late, and not before the first of them.              *)
LEMMA AdjustedSample ==
  ASSUME TypeOK, ClockInv, CallInv, pc = "adjust", Missed(milliseconds), ~pending,
         Moves, begun' = begun,
         counter' = val, milliseconds' = (milliseconds + 1) % Word
  PROVE  Sampled(milliseconds, counter, Period)'
<1>1. /\ val \in Int /\ clock \in Int /\ ticks_ms \in Int /\ begun \in Int
      /\ milliseconds \in Int /\ milliseconds' \in Int /\ val # 0
      /\ Period \in Nat /\ ClockMod \in Nat
  BY Params, ModType DEF TypeOK, ClockInv
<1>2. Passed = ticks_ms /\ Phase = Period - 1 - val
  BY <1>1 DEF Passed, Phase
<1>3. PICK k \in Nat : /\ SameMs(ticks_ms, milliseconds + k)
                       /\ k > 0 => (k - 1) * Period + Phase + 1 <= CallTime
  BY <1>2 DEF Missed
<1>4. CallTime \in Nat /\ CallTime' = CallTime + 1
  BY CallGoesOn
<1>. DEFINE ago == (k - 1) * Period
            d   == CallTime' - ago
<1>5. ago \in Int /\ d \in Int
  BY <1>1, <1>4
<1>6. d \in 0 .. CallTime' + Period
  <2>1. CASE k = 0
    <3>1. ago = -Period
      BY <1>1, <2>1
    <3>. QED BY <1>1, <1>4, <3>1
  <2>2. CASE k > 0
    <3>1. ago >= 0
      BY <1>1, <2>2
    <3>2. ago <= CallTime
      <4>. HIDE DEF d
      <4>. QED BY <1>1, <1>2, <1>3, <1>4, <1>5, <2>2, MovesTypes, MovesPhase
    <3>. HIDE DEF ago
    <3>. QED BY <1>1, <1>4, <1>5, <3>1, <3>2
  <2>. QED BY <2>1, <2>2
<1>7. PICK q1 \in Int : clock = ticks_ms * Period + Phase + q1 * ClockMod
  BY <1>2 DEF ClockInv, Same
<1>8. PICK q2 \in Int : clock = begun + CallTime + q2 * ClockMod
  BY CallClock DEF Same
<1>9. PICK q3 \in Int : ticks_ms * Period = (milliseconds + k) * Period + q3 * ClockMod
  <2>1. milliseconds + k \in Int
    BY <1>1
  <2>. QED BY <1>1, <1>3, <2>1, MsInCounts DEF Same
<1>10. PICK q4 \in Int : milliseconds' * Period = (milliseconds + 1) * Period + q4 * ClockMod
  <2>1. SameMs(milliseconds', milliseconds + 1)
    BY <1>1, SameMsMod
  <2>. QED BY <1>1, <2>1, MsInCounts DEF Same
<1>11. (milliseconds + k) * Period = (milliseconds + 1) * Period + ago
  BY <1>1
<1>12. milliseconds' * Period + Period - val
         = begun + d + (q4 + q2 - q1 - q3) * ClockMod
  <2>1. (q4 + q2 - q1 - q3) * ClockMod
          = q4 * ClockMod + q2 * ClockMod - q1 * ClockMod - q3 * ClockMod
    BY <1>1
  <2>2. /\ q1 * ClockMod \in Int /\ q2 * ClockMod \in Int /\ q3 * ClockMod \in Int
        /\ q4 * ClockMod \in Int /\ ticks_ms * Period \in Int
        /\ (milliseconds + k) * Period \in Int /\ (milliseconds + 1) * Period \in Int
        /\ milliseconds' * Period \in Int
    BY <1>1
  <2>3. d = CallTime + 1 - ago
    <3>. HIDE DEF ago
    <3>. QED BY <1>4, <1>5
  <2>. HIDE DEF d, ago
  <2>. QED
    BY <1>1, <1>2, <1>4, <1>5, <1>7, <1>8, <1>9, <1>10, <1>11, <2>1, <2>2, <2>3
<1>13. Same(milliseconds' * Period + Period - val, begun + d)
  <2>1. q4 + q2 - q1 - q3 \in Int
    OBVIOUS
  <2>. HIDE DEF d
  <2>. QED BY <1>12, <2>1 DEF Same
<1>. HIDE DEF d
<1>. QED
  BY <1>6, <1>13 DEF Sampled

LEMMA StepAdjust ==
  ASSUME TicksInv, Adjust
  PROVE  TicksInv'
<1>. TypeOK /\ ClockInv /\ CallInv /\ ReadInv
  BY DEF TicksInv
<1>0. /\ pc' = "sum" /\ pc = "adjust"
      /\ milliseconds' = IF status THEN (milliseconds + 1) % Word ELSE milliseconds
      /\ counter' = IF status THEN val ELSE counter
      /\ UNCHANGED <<masked, ticks_ms, status, us, begun>>
      /\ Line("adjust", "sum") /\ countflag' = (countflag \/ val = 1)
  BY DEF Adjust, Line, Flag
<1>a. Moves /\ Raise /\ ~(pending /\ val = 1) /\ ~(pending /\ ~masked)
  BY <1>0, LineMoves
<1>b. /\ CallTime' + Weight' <= MaxCall + 2 + 2 * Lines[pc']
      /\ masked /\ pending' => Phase' + 1 <= CallTime'
  BY <1>0, LineInCall DEF Lines
<1>c. ~masked /\ ~pending
  BY <1>0, <1>a DEF CallInv
<1>1. TypeOK'
  <2>1. milliseconds' \in 0 .. Word - 1
    <3>1. milliseconds \in 0 .. Word - 1 /\ milliseconds + 1 \in Int
      BY Params DEF TypeOK
    <3>. QED BY <1>0, <3>1, ModType, Params
  <2>2. counter' \in 0 .. Period - 1
    BY <1>0 DEF TypeOK
  <2>. QED BY <1>0, <1>a, <2>1, <2>2, MovesTypes DEF TypeOK
<1>2. ClockInv'
  <2>1. pending' => countflag'
    BY <1>0, <1>a, <1>c DEF Raise
  <2>. QED BY <1>a, <2>1, MovesClockInv
<1>3. CallInv'
  BY <1>0, <1>b, <1>c DEF CallInv
<1>4. ReadInv'
  <2>1. CASE status
    <3>1. Missed(milliseconds)
      BY <1>0 DEF ReadInv
    <3>2. Sampled(milliseconds, counter, Period)'
      BY <1>0, <1>a, <1>c, <2>1, <3>1, AdjustedSample
    <3>. QED BY <1>0, <3>2 DEF ReadInv
  <2>2. CASE ~status
    <3>1. Sampled(milliseconds, counter, Period)'
      BY <1>0, <1>a, <2>2, SamplesKept DEF ReadInv
    <3>. QED BY <1>0, <3>1 DEF ReadInv
  <2>. QED BY <2>1, <2>2 DEF TypeOK
<1>. QED BY <1>1, <1>2, <1>3, <1>4 DEF TicksInv

LEMMA StepSum ==
  ASSUME TicksInv, Sum
  PROVE  TicksInv'
<1>. TypeOK /\ ClockInv /\ CallInv /\ ReadInv
  BY DEF TicksInv
<1>0. /\ pc' = "return" /\ pc = "sum"
      /\ us' = (milliseconds * UsPerMs + ((Period - counter) \div CountsPerUs)) % Word
      /\ counter' = 0 /\ milliseconds' = 0 /\ status' = FALSE /\ begun' = 0
      /\ UNCHANGED <<masked, ticks_ms>>
      /\ Line("sum", "return") /\ countflag' = (countflag \/ val = 1)
  BY DEF Sum, Line, Flag
<1>a. Moves /\ Raise
  BY <1>0, LineMoves
<1>1. TypeOK'
  <2>1. us' \in 0 .. Word - 1
    <3>1. Period - counter \in Int /\ milliseconds * UsPerMs \in Int
      BY Params DEF TypeOK
    <3>2. (Period - counter) \div CountsPerUs \in Int
      BY <3>1, Params, ModQuotient
    <3>3. milliseconds * UsPerMs + ((Period - counter) \div CountsPerUs) \in Int
      BY <3>1, <3>2
    <3>. QED BY <1>0, <3>3, ModType, Params
  <2>2. 0 \in 0 .. Period - 1 /\ 0 \in 0 .. Word - 1 /\ 0 \in 0 .. ClockMod - 1
    BY Params
  <2>. QED BY <1>0, <1>a, <2>1, <2>2, MovesTypes DEF TypeOK
<1>2. ClockInv'
  <2>1. pending' => countflag'
    BY <1>0, <1>a DEF Raise, ClockInv
  <2>. QED BY <1>a, <2>1, MovesClockInv
<1>3. CallInv'
  BY <1>0 DEF CallInv
<1>4. ReadInv'
  BY <1>0 DEF ReadInv
<1>. QED BY <1>1, <1>2, <1>3, <1>4 DEF TicksInv

-----------------------------------------------------------------------------
(* The sum *)

LEMMA ModBound ==
  ASSUME NEW x \in Int, NEW y \in Nat, NEW m \in Nat \ {0}, NEW q \in Int, x = y + q * m
  PROVE  x % m <= y
<1>1. y = (y \div m) * m + (y % m) /\ y \div m \in Int /\ y % m \in 0 .. m - 1
  BY ModQuotient
<1>2. y % m <= y
  OBVIOUS
<1>. DEFINE r == y % m
            s == (y \div m) + q
<1>3. x = r + s * m
  BY <1>1
<1>4. r \in 0 .. m - 1 /\ s \in Int /\ r \in Int /\ r <= y
  BY <1>1, <1>2
<1>. HIDE DEF r, s
<1>5. x % m = r
  BY <1>3, <1>4, ModUnique
<1>. QED BY <1>4, <1>5

(* The microseconds of counts that are equal. *)
LEMMA UsOfSame ==
  ASSUME NEW x \in Int, NEW y \in Int, NEW q \in Int, x = y + q * ClockMod
  PROVE  x \div CountsPerUs = q * Word + (y \div CountsPerUs)
<1>. DEFINE a == q * Word
<1>1. q * ClockMod = a * CountsPerUs
  BY Params DEF ClockMod
<1>2. x = a * CountsPerUs + y
  BY <1>1, Params
<1>3. a \in Int
  BY Params
<1>. HIDE DEF a
<1>4. (a * CountsPerUs + y) \div CountsPerUs = a + (y \div CountsPerUs)
  BY <1>3, DivShift, Params
<1>. QED BY <1>2, <1>4 DEF a

(* A time between begun and a millisecond after clock, as 32 bits of       *)
(* microseconds.                                                           *)
LEMMA SumInRange ==
  ASSUME NEW b \in Nat, NEW c \in Int, NEW t \in 0 .. ClockMod - 1 - CountsPerUs,
         NEW d \in 0 .. t + Period, NEW x \in Int,
         Same(x, b + d), Same(c, b + t)
  PROVE  Ahead((x \div CountsPerUs) % Word, TrueUs(b))
           <= Ahead(TrueUs(c), TrueUs(b)) + UsPerMs
<1>. DEFINE B == b \div CountsPerUs
            X == (b + d) \div CountsPerUs
            E == (b + t) \div CountsPerUs
<1>0. /\ b + d \in Int /\ b + t \in Int /\ CountsPerUs \in Nat \ {0} /\ Word \in Nat \ {0}
      /\ UsPerMs \in Nat /\ ClockMod = Word * CountsPerUs /\ Period = UsPerMs * CountsPerUs
  BY Params DEF ClockMod, Period
<1>1. B \in Int /\ X \in Int /\ E \in Int
  BY <1>0, ModQuotient
<1>2. B <= X /\ B <= E
  BY <1>0, DivMonotonic
<1>3. E <= B + Word - 1
  <2>1. (Word - 1) * CountsPerUs + b = b + ClockMod - CountsPerUs
    BY <1>0
  <2>2. b + t <= (Word - 1) * CountsPerUs + b /\ (Word - 1) * CountsPerUs + b \in Int
    BY <1>0, <2>1
  <2>3. E <= ((Word - 1) * CountsPerUs + b) \div CountsPerUs
    BY <1>0, <2>2, DivMonotonic
  <2>4. ((Word - 1) * CountsPerUs + b) \div CountsPerUs = (Word - 1) + B
    <3>. DEFINE w == Word - 1
    <3>. w \in Int /\ b \in Int
      BY <1>0
    <3>. HIDE DEF w
    <3>1. (w * CountsPerUs + b) \div CountsPerUs = w + B
      BY <1>0, DivShift
    <3>. QED BY <3>1 DEF w
  <2>. HIDE DEF E, B
  <2>. QED BY <1>0, <1>1, <2>3, <2>4
<1>4. X <= E + UsPerMs
  <2>1. UsPerMs * CountsPerUs + (b + t) \in Int /\ b + d <= UsPerMs * CountsPerUs + (b + t)
    BY <1>0
  <2>2. X <= (UsPerMs * CountsPerUs + (b + t)) \div CountsPerUs
    BY <1>0, <2>1, DivMonotonic
  <2>3. (UsPerMs * CountsPerUs + (b + t)) \div CountsPerUs = UsPerMs + E
    <3>. DEFINE e == b + t
    <3>. e \in Int /\ UsPerMs \in Int
      BY <1>0
    <3>. HIDE DEF e
    <3>1. (UsPerMs * CountsPerUs + e) \div CountsPerUs = UsPerMs + (e \div CountsPerUs)
      BY <1>0, DivShift
    <3>. QED BY <3>1 DEF e
  <2>. HIDE DEF E, X
  <2>. QED BY <1>0, <1>1, <2>2, <2>3
<1>5. (((x \div CountsPerUs) % Word) - B) % Word <= X - B
  <2>1. PICK q \in Int : x = b + d + q * ClockMod
    BY DEF Same
  <2>2. x \div CountsPerUs = q * Word + X
    BY <1>0, <2>1, UsOfSame
  <2>3. PICK r \in Int : (x \div CountsPerUs) % Word = (x \div CountsPerUs) + r * Word
    <3>. x \div CountsPerUs \in Int
      BY <1>0, ModQuotient
    <3>. QED BY SameMsMod DEF SameMs
  <2>. HIDE DEF X, B
  <2>4. ((x \div CountsPerUs) % Word) - B = (X - B) + (q + r) * Word
    BY <1>0, <1>1, <2>2, <2>3
  <2>5. X - B \in Nat /\ q + r \in Int
    BY <1>1, <1>2
  <2>6. (X - B) + (q + r) * Word \in Int
    BY <1>0, <2>5
  <2>. QED BY <1>0, <2>4, <2>5, <2>6, ModBound
<1>6. ((c \div CountsPerUs) - B) % Word = E - B
  <2>1. PICK q \in Int : c = b + t + q * ClockMod
    BY DEF Same
  <2>2. c \div CountsPerUs = q * Word + E
    BY <1>0, <2>1, UsOfSame
  <2>. HIDE DEF E, B
  <2>3. (c \div CountsPerUs) - B = (E - B) + q * Word
    BY <1>0, <1>1, <2>2
  <2>4. E - B \in 0 .. Word - 1
    BY <1>0, <1>1, <1>2, <1>3
  <2>5. (E - B) + q * Word \in Int
    BY <1>0, <2>4
  <2>. DEFINE e == E - B
              f == (c \div CountsPerUs) - B
  <2>6. f = e + q * Word /\ e \in 0 .. Word - 1 /\ f \in Int
    BY <2>3, <2>4, <2>5
  <2>. HIDE DEF e, f
  <2>7. f % Word = e
    BY <1>0, <2>6, ModUnique
  <2>. QED BY <2>7 DEF e, f
<1>7. /\ ((x \div CountsPerUs) % Word) - B \in Int
      /\ (((x \div CountsPerUs) % Word) - B) % Word \in Int
  <2>1. x \div CountsPerUs \in Int
    BY <1>0, ModQuotient
  <2>2. (x \div CountsPerUs) % Word \in Int
    BY <1>0, <2>1, ModType
  <2>. HIDE DEF B
  <2>3. ((x \div CountsPerUs) % Word) - B \in Int
    BY <1>1, <2>2
  <2>. QED BY <1>0, <2>3, ModType
<1>. HIDE DEF X, E
<1>8. (((x \div CountsPerUs) % Word) - B) % Word <= (((c \div CountsPerUs) - B) % Word) + UsPerMs
  <2>. HIDE DEF B
  <2>. QED BY <1>0, <1>1, <1>4, <1>5, <1>6, <1>7
<1>. QED
  BY <1>8 DEF Ahead, TrueUs

LEMMA SumNeverBehind ==
  ASSUME TicksInv, Sum
  PROVE  Ahead(us', TrueUs(begun)) <= Ahead(TrueUs(clock'), TrueUs(begun)) + UsPerMs
<1>. TypeOK /\ ClockInv /\ CallInv /\ ReadInv /\ Moves
  BY LineMoves DEF TicksInv, Sum
<1>0. /\ milliseconds \in Nat /\ counter \in Int /\ begun \in Nat /\ clock \in Nat
      /\ clock' \in Int /\ Period \in Nat /\ pc = "sum"
  BY Params, MovesTypes DEF TypeOK, Sum, Line
<1>. DEFINE x == milliseconds * Period + Period - counter
            t == CallTime + 1
<1>1. PICK d \in 0 .. CallTime + Period : Same(x, begun + d)
  BY <1>0 DEF ReadInv, Sampled
<1>2. t \in 0 .. ClockMod - 1 - CountsPerUs /\ CallTime \in Nat
  BY <1>0, CallIsShort, Params
<1>3. Same(clock', begun + t)
  <2>1. Same(clock', clock + 1)
    BY <1>0, SameMod DEF Moves, Count
  <2>2. PICK q \in Int : clock' = clock + 1 + q * ClockMod
    BY <2>1 DEF Same
  <2>3. PICK r \in Int : clock = begun + CallTime + r * ClockMod
    BY CallClock DEF Same
  <2>4. clock' = begun + t + (q + r) * ClockMod /\ q + r \in Int
    BY <1>0, <1>2, <2>2, <2>3, Params
  <2>. HIDE DEF t
  <2>. QED BY <2>4 DEF Same
<1>4. us' = (x \div CountsPerUs) % Word
  <2>1. x = (milliseconds * UsPerMs) * CountsPerUs + (Period - counter)
    BY <1>0, Params DEF Period
  <2>2. milliseconds * UsPerMs \in Int /\ Period - counter \in Int
    BY <1>0, Params
  <2>3. x \div CountsPerUs = milliseconds * UsPerMs + ((Period - counter) \div CountsPerUs)
    <3>. DEFINE a == milliseconds * UsPerMs
                r == Period - counter
    <3>1. x = a * CountsPerUs + r /\ a \in Int /\ r \in Int
      BY <2>1, <2>2
    <3>. HIDE DEF x, a, r
    <3>2. x \div CountsPerUs = a + (r \div CountsPerUs)
      BY <3>1, DivShift, Params
    <3>. QED BY <3>2 DEF a, r
  <2>. HIDE DEF x
  <2>. QED BY <2>3 DEF Sum
<1>5. x \in Int /\ d \in 0 .. t + Period
  BY <1>0, <1>2
<1>. HIDE DEF x, t
<1>. QED
  BY <1>0, <1>1, <1>2, <1>3, <1>4, <1>5, SumInRange

-----------------------------------------------------------------------------
(* The theorems *)

LEMMA InitTicks ==
  ASSUME Init
  PROVE  TicksInv
<1>1. /\ Period \in Nat \ {0, 1} /\ val = Period - 1 /\ countflag = FALSE /\ pending = FALSE
      /\ clock = 0 /\ masked = FALSE /\ ticks_ms = 0 /\ pc = "return" /\ counter = 0
      /\ milliseconds = 0 /\ status = FALSE /\ us = 0 /\ begun = 0
  BY Params DEF Init
<1>2. TypeOK
  <2>1. 0 \in 0 .. Period - 1 /\ Period - 1 \in 0 .. Period - 1
        /\ 0 \in 0 .. Word - 1 /\ 0 \in 0 .. ClockMod - 1
    BY Params
  <2>. QED BY <1>1, <2>1 DEF TypeOK
<1>3. ClockInv
  <2>1. Passed * Period + Phase = 0
    BY <1>1 DEF Passed, Phase
  <2>2. Same(clock, 0)
    BY <1>1, SameReflexive
  <2>. QED BY <1>1, <2>1, <2>2 DEF ClockInv
<1>. QED
  BY <1>1, <1>2, <1>3 DEF TicksInv, CallInv, ReadInv

LEMMA StepTicks ==
  ASSUME TicksInv, [Next]_vars
  PROVE  TicksInv'
<1>1. CASE Wait
  BY <1>1, StepWait
<1>2. CASE SysTick_Handler
  BY <1>2, StepSysTick_Handler
<1>3. CASE DisableIrq
  BY <1>3, StepDisableIrq
<1>4. CASE ReadVal
  BY <1>4, StepReadVal
<1>5. CASE ReadMs
  BY <1>5, StepReadMs
<1>6. CASE ReadCtrl
  BY <1>6, StepReadCtrl
<1>7. CASE EnableIrq
  BY <1>7, StepEnableIrq
<1>8. CASE Adjust
  BY <1>8, StepAdjust
<1>9. CASE Sum
  BY <1>9, StepSum
<1>10. CASE UNCHANGED vars
  BY <1>10 DEF vars, locals, TicksInv, TypeOK, ClockInv, CallInv, ReadInv,
               Passed, Phase, Weight, CallTime, Sampled, Missed
<1>. QED
  BY <1>1, <1>2, <1>3, <1>4, <1>5, <1>6, <1>7, <1>8, <1>9, <1>10 DEF Next, mp_hal_ticks_us

(* The counter, ticks_ms and the exception that waits are one clock, and   *)
(* what the call has read of them is a time of the call.                   *)
THEOREM TicksInvariant == Spec => []TicksInv
<1>. QED
  BY InitTicks, StepTicks, PTL DEF Spec

(* The registers and the locals of mp_hal_ticks_us have their types.       *)
THEOREM TypeCorrect == Spec => []TypeOK
<1>1. TicksInv => TypeOK
  BY DEF TicksInv
<1>. QED
  BY <1>1, TicksInvariant, PTL

(* mp_hal_ticks_us returns a time between the begin of the call and a      *)
(* millisecond after its end, for every rate of the counter.               *)
THEOREM NeverIsBehind == Spec => NeverBehind
<1>1. TicksInv /\ [Next]_vars
        => [Sum => Ahead(us', TrueUs(begun))
                     <= Ahead(TrueUs(clock'), TrueUs(begun)) + UsPerMs]_vars
  BY SumNeverBehind
<1>. QED
  BY <1>1, TicksInvariant, PTL DEF Spec, NeverBehind

=============================================================================
