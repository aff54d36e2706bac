------------------------------- MODULE Sched -------------------------------
(***************************************************************************)
(* The callback queue of the MicroPython runtime (py/scheduler.c, a git    *)
(* submodule, so outside src/), modelled from the way the port uses it:    *)
(* machine_timer_tick_all and pin_dispatch_irq call mp_sched_schedule from *)
(* interrupt handlers and ignore its result; mp_handle_pending, called     *)
(* from the polling loops of mphalport.c, runs the oldest entry.           *)
(***************************************************************************)
EXTENDS Naturals, Sequences

CONSTANT SchedDepth  (* MICROPY_SCHEDULER_DEPTH, 4 unless the port sets it *)

ASSUME SchedDepthAssumption == SchedDepth \in Nat \ {0}

SchedFull(q) == Len(q) >= SchedDepth

(* mp_sched_schedule: a full queue refuses the entry, and the port's       *)
(* callers drop it.                                                        *)
Schedule(q, entry) == IF SchedFull(q) THEN q ELSE Append(q, entry)

=============================================================================
