---------------------------- MODULE TimerReinit ----------------------------
(***************************************************************************)
(* init of a running timer (timer.c:88-120): Timer with the memory of what *)
(* the timer was before the call, to tell whose shot comes during it.      *)
(***************************************************************************)
EXTENDS Timer

VARIABLE before     (* the fields of the timer when init was called *)

rvars == <<vars, before>>

ReinitInit == Init /\ before = FreshObj

ReinitNext ==
  /\ Next
  /\ before' = IF pc = "idle" /\ pc' = "args" THEN obj[self'] ELSE before

ReinitSpec == ReinitInit /\ [][ReinitNext]_rvars

-----------------------------------------------------------------------------
(* The ticks from init to the shot; a period of 0 means the next tick.     *)
TicksFor(period) == IF period = 0 THEN 1 ELSE period

(* The period of before the call has ended, in this tick or in one that    *)
(* hit the call.                                                           *)
OldAsked ==
  /\ before.active
  /\ (ticks - before.last_tick) % TickMod
       \in TicksFor(before.period) .. TicksFor(before.period) + MaxPreempt

(* The new period has ended, counted from the very beginning of the call.  *)
NewAsked == preempted >= TicksFor(vals.period)

(* "Precise periodic and one-shot timing": when a timer fires while init   *)
(* sets it up again, the configuration of before or the one of after asks  *)
(* for a shot now; never a mixture of the two.                             *)
ShotAsked ==
  [][\A t \in Timers :
       Fire(t) /\ self = t /\ pc \in {"args", "arm"} => OldAsked \/ NewAsked]_rvars

=============================================================================
