------------------------------- MODULE Ticks -------------------------------
(***************************************************************************)
(* mp_hal_ticks_us of mphalport.c: a microsecond clock put together from   *)
(* ticks_ms, which SysTick_Handler increments, and the SysTick counter,    *)
(* which counts down between two interrupts.  The registers go on moving   *)
(* while the function reads them one after the other.                      *)
(***************************************************************************)
EXTENDS Integers

CONSTANTS
  CountsPerUs,   (* CPU_FREQ / 1000000                                     *)
  UsPerMs,       (* 1000                                                   *)
  Word,          (* 2^32                                                   *)
  MaxCall        (* most counts one call takes                             *)

(* SYSTICK_LOAD + 1: the counts of a millisecond. *)
Period == CountsPerUs * UsPerMs

(* Microseconds are counted modulo 2^32, so counts repeat with this.       *)
ClockMod == CountsPerUs * Word

(* A call, whose lines and the handler's count a little more than MaxCall, *)
(* is over long before the microseconds repeat, which takes 71 minutes.    *)
ASSUME TicksAssumption ==
  /\ CountsPerUs \in Nat \ {0}
  /\ UsPerMs \in Nat \ {0, 1}
  /\ Word \in Nat \ {0}
  /\ MaxCall \in Nat
  /\ MaxCall + 16 + CountsPerUs <= ClockMod

VARIABLES
  val,        (* SYSTICK_VAL                                               *)
  countflag,  (* bit 16 of SYSTICK_CTRL, cleared when CTRL is read         *)
  pending,    (* the SysTick exception is pending                          *)
  clock,      (* history: counts since SysTick was started                 *)
  masked,     (* PRIMASK                                                   *)
  ticks_ms,
  pc,         (* the line of mp_hal_ticks_us the main thread is at         *)
  counter, milliseconds, status,     (* its local variables                *)
  us,         (* what the last call returned                               *)
  begun       (* history: clock when the last call began                   *)

locals == <<counter, milliseconds, status>>
vars   == <<val, countflag, pending, clock, masked, ticks_ms, pc, locals, us, begun>>

-----------------------------------------------------------------------------
TrueUs(c)   == c \div CountsPerUs
Ahead(a, b) == (a - b) % Word            (* how far a is after b           *)
CallTime    == (clock - begun) % ClockMod

(* The SysTick counter moves on by one.  Reaching 0 sets COUNTFLAG and the *)
(* exception; from 0 it starts again at SYSTICK_LOAD.                      *)
Count ==
  /\ val' = IF val = 0 THEN Period - 1 ELSE val - 1
  /\ clock' = (clock + 1) % ClockMod

Raise == pending' = (pending \/ val = 1)
Flag  == countflag' = (countflag \/ val = 1)

(* Time passes without a step of the main thread.  No tick is missed: no   *)
(* handler and no masked section lasts as long as a millisecond.           *)
Wait ==
  /\ pc = "return" \/ CallTime < MaxCall
  /\ ~(pending /\ val = 1)
  /\ Count /\ Raise /\ Flag
  /\ UNCHANGED <<masked, ticks_ms, pc, locals, us, begun>>

(* It does not read SYSTICK_CTRL, so COUNTFLAG stays set.                  *)
SysTick_Handler ==
  /\ pending /\ ~masked
  /\ Count /\ Flag
  /\ pending' = (val = 1)
  /\ ticks_ms' = (ticks_ms + 1) % Word
  /\ UNCHANGED <<masked, pc, locals, us, begun>>

-----------------------------------------------------------------------------
(* mp_hal_ticks_us.  The main thread does not run while an exception is    *)
(* pending that it does not mask.  Every line takes a count at least.      *)
Line(from, to) ==
  /\ pc = from /\ pc' = to
  /\ ~(pending /\ ~masked)
  /\ ~(pending /\ val = 1)
  /\ Count /\ Raise

DisableIrq ==
  /\ Line("return", "val") /\ Flag
  /\ masked' = TRUE /\ begun' = clock
  /\ UNCHANGED <<ticks_ms, locals, us>>

ReadVal ==
  /\ Line("val", "ms") /\ Flag
  /\ counter' = val
  /\ UNCHANGED <<masked, ticks_ms, milliseconds, status, us, begun>>

ReadMs ==
  /\ Line("ms", "ctrl") /\ Flag
  /\ milliseconds' = ticks_ms
  /\ UNCHANGED <<masked, ticks_ms, counter, status, us, begun>>

(* Reading CTRL clears COUNTFLAG. *)
ReadCtrl ==
  /\ Line("ctrl", "enable")
  /\ status' = countflag
  /\ countflag' = (val = 1)
  /\ UNCHANGED <<masked, ticks_ms, counter, milliseconds, us, begun>>

EnableIrq ==
  /\ Line("enable", "adjust") /\ Flag
  /\ masked' = FALSE
  /\ UNCHANGED <<ticks_ms, locals, us, begun>>

(* Mutant: the missed tick is not added. *)
MutAdjust ==
  /\ Line("adjust", "sum") /\ Flag
  /\ UNCHANGED <<masked, ticks_ms, locals, us, begun>>

(* milliseconds++ and a new look at the counter, if COUNTFLAG was set.     *)
Adjust ==
  /\ Line("adjust", "sum") /\ Flag
  /\ milliseconds' = IF status THEN (milliseconds + 1) % Word ELSE milliseconds
  /\ counter' = IF status THEN val ELSE counter
  /\ UNCHANGED <<masked, ticks_ms, status, us, begun>>

(* Mutant of Sum: the sum is not cut to 32 bits.                           *)
MutSum ==
  /\ Line("sum", "return") /\ Flag
  /\ us' = milliseconds * UsPerMs + ((Period - counter) \div CountsPerUs)
  /\ counter' = 0 /\ milliseconds' = 0 /\ status' = FALSE /\ begun' = 0
  /\ UNCHANGED <<masked, ticks_ms>>

(* milliseconds * 1000 + (load - counter) / us_per_tick. *)
Sum ==
  /\ Line("sum", "return") /\ Flag
  /\ us' = (milliseconds * UsPerMs + ((Period - counter) \div CountsPerUs)) % Word
  /\ counter' = 0 /\ milliseconds' = 0 /\ status' = FALSE /\ begun' = 0
  /\ UNCHANGED <<masked, ticks_ms>>

-----------------------------------------------------------------------------
(* mp_hal_init has just started SysTick. *)
Init ==
  /\ val = Period - 1 /\ countflag = FALSE /\ pending = FALSE /\ clock = 0
  /\ masked = FALSE /\ ticks_ms = 0
  /\ pc = "return"
  /\ counter = 0 /\ milliseconds = 0 /\ status = FALSE
  /\ us = 0 /\ begun = 0

mp_hal_ticks_us ==
  DisableIrq \/ ReadVal \/ ReadMs \/ ReadCtrl \/ EnableIrq \/ Adjust \/ Sum

Next == Wait \/ SysTick_Handler \/ mp_hal_ticks_us

Spec == Init /\ [][Next]_vars

-----------------------------------------------------------------------------
(* Correctness *)

TypeOK ==
  /\ val \in 0 .. Period - 1 /\ counter \in 0 .. Period - 1
  /\ {countflag, pending, masked, status} \subseteq BOOLEAN
  /\ {ticks_ms, milliseconds, us} \subseteq 0 .. Word - 1
  /\ {clock, begun} \subseteq 0 .. ClockMod - 1
  /\ pc \in {"return", "val", "ms", "ctrl", "enable", "adjust", "sum"}

(* The value returned is a time between the begin of the call and a        *)
(* millisecond after its end, wherever the counter and the handler moved   *)
(* in between and across the wrap of both counters: a tick may be counted  *)
(* twice, never lost.                                                      *)
NeverBehind ==
  [][Sum => Ahead(us', TrueUs(begun))
              <= Ahead(TrueUs(clock'), TrueUs(begun)) + UsPerMs]_vars

=============================================================================
