------------------------------- MODULE Timer -------------------------------
(***************************************************************************)
(* machine.Timer of the Tang Nano 4K port: timer.c, driven by the SysTick  *)
(* interrupt of mphalport.c.                                               *)
(*                                                                         *)
(* Two contexts share the pool active_timers[] and the timer objects       *)
(* without any lock: the main thread (make_new, init, deinit, called by    *)
(* the script) and SysTick_Handler, which runs every millisecond and is    *)
(* never interrupted (all vectors have the reset priority).  The handler   *)
(* can hit the main thread between any two stores, so each store of init   *)
(* and deinit to a shared field is a step of its own.                      *)
(***************************************************************************)
EXTENDS Sched, Integers, FiniteSets

CONSTANTS
  Timers,        (* timer objects the heap has room for                    *)
  Callbacks,     (* what scripts pass as callback=, maybe None among it    *)
  None,          (* mp_const_none, the callback of a timer without one     *)
  NULL,          (* the null pointer                                       *)
  MaxTimers,     (* MAX_TIMERS                                             *)
  TickMod,       (* 2^32: ticks_ms and last_tick are uint32_t              *)
  Periods,       (* the period= arguments scripts pass                     *)
  MaxPreempt,    (* most ticks that hit one call of init or deinit, whose  *)
                 (* body is far shorter than a millisecond                 *)
  Reorder,       (* TRUE: stores not separated by a call may commit in any *)
                 (* order, as C allows for these non-volatile fields       *)
  ReinitActive   (* TRUE: scripts may call init on a running timer         *)

ASSUME TimerAssumption ==
  /\ NULL \notin Timers
  /\ MaxTimers \in Nat \ {0}
  /\ TickMod \in Nat \ {0}
  /\ Periods \subseteq 0 .. TickMod - 1
  /\ MaxPreempt \in Nat
  /\ Reorder \in BOOLEAN
  /\ ReinitActive \in BOOLEAN

VARIABLES
  ticks,      (* ticks_ms *)
  slots,      (* MP_STATE_PORT(active_timers), indices 0 .. MaxTimers - 1  *)
  obj,        (* machine_timer_obj_t of every object                       *)
  made,       (* objects that are allocated                                *)
  queue,      (* the scheduler's queue of <<callback, timer>> entries      *)
  pc,         (* where the main thread is in a call on `self'              *)
  self,       (* the timer of that call                                    *)
  vals,       (* the parsed arguments of init                              *)
  now,        (* the result of mp_hal_ticks_ms() in init                   *)
  todo,       (* stores of the current segment that are still to commit    *)
  preempted,  (* ticks since the call began                                *)
  scan        (* loop index of machine_timer_tick_all; MaxTimers outside   *)

progress == <<pc, self, vals, now, todo>>
vars == <<ticks, slots, obj, made, queue, progress, preempted, scan>>

-----------------------------------------------------------------------------
(* Data *)

Modes   == {"ONE_SHOT", "PERIODIC"}
Slots   == 0 .. MaxTimers - 1
Entries == (Callbacks \cup {None}) \X Timers
Vals    == [period : Periods \cup {0}, mode : Modes, callback : Callbacks \cup {None}]
Obj     == [period : Periods \cup {0}, mode : Modes, callback : Callbacks \cup {None},
            last_tick : 0 .. TickMod - 1, active : BOOLEAN]

(* A fresh object: gc_alloc zeroes the block, make_new sets the rest.      *)
FreshVals == [period |-> 0, mode |-> "ONE_SHOT", callback |-> None]
FreshObj  == [period |-> 0, mode |-> "ONE_SHOT", callback |-> None,
              last_tick |-> 0, active |-> FALSE]

InPool(t) == \E i \in Slots : slots[i] = t
Empty     == {i \in Slots : slots[i] = NULL}

(* The scans of make_new and init keep the first NULL slot.                *)
FirstEmpty == CHOOSE i \in Empty : \A j \in Empty : i <= j

(* current_tick - timer->last_tick in uint32_t arithmetic.                 *)
Elapsed(t) == (ticks - obj[t].last_tick) % TickMod

(* Mutants of Due: `>' for `>=', and a comparison of sums that overflow.   *)
MutDueLater(t)  == obj[t].active /\ Elapsed(t) > obj[t].period
MutDueNoWrap(t) == obj[t].active /\ ticks >= obj[t].last_tick + obj[t].period

(* The condition of the `if' in machine_timer_tick_all.                    *)
Due(t) == obj[t].active /\ Elapsed(t) >= obj[t].period

InHandler == scan < MaxTimers

-----------------------------------------------------------------------------
(* Main thread: machine_timer_make_new and the garbage collector *)

MainIdle == ~InHandler /\ pc = "idle"

(* machine_timer_make_new.  The object is unknown to the handler until its *)
(* slot is stored, and is inactive then, so the call is one step.  With a  *)
(* full pool it raises OSError(ENOMEM) and leaves garbage: no step.        *)
MakeNew(t) ==
  /\ MainIdle
  /\ t \notin made
  /\ Empty # {}
  /\ slots' = [slots EXCEPT ![FirstEmpty] = t]
  /\ obj' = [obj EXCEPT ![t] = FreshObj]
  /\ made' = made \cup {t}
  /\ UNCHANGED <<ticks, queue, progress, preempted, scan>>

(* Mutant of Collect: active_timers[] is not registered as a root pointer. *)
MutCollectPool(t) ==
  /\ MainIdle
  /\ t \in made
  /\ \A k \in DOMAIN queue : queue[k][2] # t
  /\ made' = made \ {t}
  /\ obj' = [obj EXCEPT ![t] = FreshObj]
  /\ UNCHANGED <<ticks, slots, queue, progress, preempted, scan>>

(* The script has dropped t and gc_collect finds it neither in the pool    *)
(* nor in the scheduler's queue, which are roots.                          *)
Collect(t) ==
  /\ MainIdle
  /\ t \in made
  /\ ~InPool(t)
  /\ \A k \in DOMAIN queue : queue[k][2] # t
  /\ made' = made \ {t}
  /\ obj' = [obj EXCEPT ![t] = FreshObj]
  /\ UNCHANGED <<ticks, slots, queue, progress, preempted, scan>>

-----------------------------------------------------------------------------
(* Main thread: machine_timer_init_helper and machine_timer_deinit *)

(* The stores of both calls, numbered in program order.  Calls split       *)
(* init's into two segments: {period, mode, callback}, then mp_hal_ticks_ms*)
(* and {last_tick, slot, active}.  `stop' is deinit's store to active.     *)
InitArgs == {"period", "mode", "callback"}
Stores   == InitArgs \cup {"last_tick", "slot", "active", "stop", "unslot"}
(* Mutant of Rank: active is set before last_tick is. *)
MutRankActiveFirst == [period |-> 1, mode |-> 2, callback |-> 3,
         last_tick |-> 6, slot |-> 4, active |-> 5,
         stop |-> 1, unslot |-> 2]
Rank == [period |-> 1, mode |-> 2, callback |-> 3,
         last_tick |-> 4, slot |-> 5, active |-> 6,
         stop |-> 1, unslot |-> 2]

Commits(s) ==
  /\ s \in todo
  /\ Reorder \/ \A r \in todo : Rank[s] <= Rank[r]

(* init(period=, mode=, callback=), arguments parsed.                      *)
InitCall(t, v) ==
  /\ MainIdle
  /\ t \in made
  /\ ReinitActive \/ ~obj[t].active
  /\ pc' = "args" /\ self' = t /\ vals' = v /\ todo' = InitArgs
  /\ UNCHANGED <<ticks, slots, obj, made, queue, now, preempted, scan>>

(* Mutants of StoresToArm: no search for self, no ENOMEM, no last_tick.    *)
MutAlwaysSlot(t)  == IF Empty # {} THEN {"last_tick", "slot", "active"} ELSE {"last_tick"}
MutNoENOMEM(t)    == {"last_tick", "active"} \cup (IF InPool(t) \/ Empty = {} THEN {} ELSE {"slot"})
MutNoLastTick(t)  == {"active"} \cup (IF InPool(t) THEN {} ELSE {"slot"})

(* The stores left when the pool has been searched: the timer's slot only  *)
(* if it is not registered; if no slot is free, ENOMEM is raised after     *)
(* last_tick was written.                                                  *)
StoresToArm(t) ==
  CASE InPool(t)                  -> {"last_tick", "active"}
    [] ~InPool(t) /\ Empty # {}   -> {"last_tick", "slot", "active"}
    [] OTHER                      -> {"last_tick"}

(* last_tick = mp_hal_ticks_ms(), and the search of the pool, which only   *)
(* the main thread writes.                                                 *)
ReadTicks ==
  /\ ~InHandler
  /\ pc = "args" /\ todo = {}
  /\ pc' = "arm" /\ now' = ticks /\ todo' = StoresToArm(self)
  /\ UNCHANGED <<ticks, slots, obj, made, queue, self, vals, preempted, scan>>

(* deinit(): active = false, then the slot of this timer, if any.          *)
DeinitCall(t) ==
  /\ MainIdle
  /\ t \in made
  /\ pc' = "deinit" /\ self' = t
  /\ todo' = {"stop"} \cup (IF InPool(t) THEN {"unslot"} ELSE {})
  /\ UNCHANGED <<ticks, slots, obj, made, queue, vals, now, preempted, scan>>

(* What each store writes to the object. *)
Stored(o, s) ==
  CASE s = "period"    -> [o EXCEPT !.period = vals.period]
    [] s = "mode"      -> [o EXCEPT !.mode = vals.mode]
    [] s = "callback"  -> [o EXCEPT !.callback = vals.callback]
    [] s = "last_tick" -> [o EXCEPT !.last_tick = now]
    [] s = "active"    -> [o EXCEPT !.active = TRUE]
    [] s = "stop"      -> [o EXCEPT !.active = FALSE]

StoreField(s) ==
  /\ ~InHandler
  /\ s \notin {"slot", "unslot"}
  /\ Commits(s)
  /\ todo' = todo \ {s}
  /\ obj' = [obj EXCEPT ![self] = Stored(@, s)]
  /\ UNCHANGED <<ticks, slots, made, queue, pc, self, vals, now, preempted, scan>>

(* active_timers[first_empty] = self. *)
StoreSlot ==
  /\ ~InHandler
  /\ Commits("slot")
  /\ todo' = todo \ {"slot"}
  /\ slots' = [slots EXCEPT ![FirstEmpty] = self]
  /\ UNCHANGED <<ticks, obj, made, queue, pc, self, vals, now, preempted, scan>>

(* The first slot that holds t, where deinit's loop breaks.                *)
SlotOf(t) == CHOOSE i \in Slots : slots[i] = t /\ \A j \in Slots : slots[j] = t => i <= j

(* active_timers[i] = NULL for the slot of self. *)
ClearSlot ==
  /\ ~InHandler
  /\ Commits("unslot")
  /\ todo' = todo \ {"unslot"}
  /\ slots' = [slots EXCEPT ![SlotOf(self)] = NULL]
  /\ UNCHANGED <<ticks, obj, made, queue, pc, self, vals, now, preempted, scan>>

(* The call returns, or raises ENOMEM, to the script. *)
Return ==
  /\ ~InHandler
  /\ pc \in {"arm", "deinit"} /\ todo = {}
  /\ pc' = "idle" /\ self' = NULL /\ vals' = FreshVals /\ now' = 0 /\ todo' = {}
  /\ preempted' = 0
  /\ UNCHANGED <<ticks, slots, obj, made, queue, scan>>

(* mp_handle_pending, from the loops of stdin_rx_chr and delay_ms: one     *)
(* queued callback runs.  What it does to timers are calls like any other. *)
RunPending ==
  /\ MainIdle
  /\ queue # <<>>
  /\ queue' = Tail(queue)
  /\ UNCHANGED <<ticks, slots, obj, made, progress, preempted, scan>>

-----------------------------------------------------------------------------
(* SysTick_Handler *)

(* Mutant of SysTick: a counter that does not wrap like a uint32_t.        *)
MutSysTickWide ==
  /\ ~InHandler
  /\ pc = "idle" \/ preempted < MaxPreempt
  /\ preempted' = IF pc = "idle" THEN 0 ELSE preempted + 1
  /\ ticks' = ticks + 1
  /\ scan' = 0
  /\ UNCHANGED <<slots, obj, made, queue, progress>>

(* The interrupt: ticks_ms++ and entry to machine_timer_tick_all.          *)
SysTick ==
  /\ ~InHandler
  /\ pc = "idle" \/ preempted < MaxPreempt
  /\ preempted' = IF pc = "idle" THEN 0 ELSE preempted + 1
  /\ ticks' = (ticks + 1) % TickMod
  /\ scan' = 0
  /\ UNCHANGED <<slots, obj, made, queue, progress>>

(* One iteration of the loop that finds the slot empty, or its timer       *)
(* inactive or not due.                                                    *)
SkipSlot ==
  /\ InHandler
  /\ ~ \E t \in Timers : slots[scan] = t /\ Due(t)
  /\ scan' = scan + 1
  /\ UNCHANGED <<ticks, slots, obj, made, queue, progress, preempted>>

(* The callback is posted unless there is none; the result is ignored.     *)
Posted(q, t) == IF obj[t].callback = None THEN q
                ELSE Schedule(q, <<obj[t].callback, t>>)

(* What the handler leaves of a timer that fired. *)
Rearmed(o) == IF o.mode = "ONE_SHOT" THEN [o EXCEPT !.active = FALSE]
              ELSE [o EXCEPT !.last_tick = ticks]

(* One iteration that fires t. *)
Fire(t) ==
  /\ InHandler
  /\ slots[scan] = t
  /\ Due(t)
  /\ queue' = Posted(queue, t)
  /\ obj' = [obj EXCEPT ![t] = Rearmed(@)]
  /\ scan' = scan + 1
  /\ UNCHANGED <<ticks, slots, made, progress, preempted>>

-----------------------------------------------------------------------------
(* Specification *)

Init ==
  /\ ticks = 0
  /\ slots = [i \in Slots |-> NULL]
  /\ obj = [t \in Timers |-> FreshObj]
  /\ made = {}
  /\ queue = <<>>
  /\ pc = "idle" /\ self = NULL /\ vals = FreshVals /\ now = 0 /\ todo = {}
  /\ preempted = 0
  /\ scan = MaxTimers

Handler == SysTick \/ SkipSlot \/ \E t \in Timers : Fire(t)

(* The steps that carry a call of init or deinit to its end. *)
Finish == ReadTicks \/ StoreSlot \/ ClearSlot \/ Return \/ \E s \in Stores : StoreField(s)

Script ==
  \/ \E t \in Timers : MakeNew(t) \/ Collect(t) \/ DeinitCall(t)
  \/ \E t \in Timers, p \in Periods, m \in Modes, c \in Callbacks :
       InitCall(t, [period |-> p, mode |-> m, callback |-> c])
  \/ RunPending

Next == Handler \/ Finish \/ Script

Spec == Init /\ [][Next]_vars

(* The tick keeps coming and its handler runs to the end; a call that the  *)
(* script has begun is finished in the time between ticks.  Nothing says   *)
(* that the script calls anything.                                         *)
LiveSpec == Spec /\ WF_vars(Handler) /\ WF_vars(Finish)

-----------------------------------------------------------------------------
(* Correctness *)

(* Every variable keeps its type; the scheduler's queue never exceeds its  *)
(* depth and ticks_ms stays a machine word.                                *)
TypeOK ==
  /\ ticks \in 0 .. TickMod - 1
  /\ slots \in [Slots -> Timers \cup {NULL}]
  /\ obj \in [Timers -> Obj]
  /\ made \subseteq Timers
  /\ queue \in Seq(Entries) /\ Len(queue) <= SchedDepth
  /\ pc \in {"idle", "args", "arm", "deinit"}
  /\ self \in Timers \cup {NULL}
  /\ vals \in Vals
  /\ now \in 0 .. TickMod - 1
  /\ todo \subseteq Stores
  /\ preempted \in 0 .. MaxPreempt
  /\ scan \in 0 .. MaxTimers

(* No timer ever holds two slots, however make_new, init, deinit and the   *)
(* handler interleave: machine_timer_tick_all would fire it twice a tick,  *)
(* and deinit, which clears one slot, would leave it registered.           *)
PoolInjective ==
  \A i, j \in Slots : slots[i] = slots[j] /\ slots[i] # NULL => i = j

(* A timer that reads as active is one the handler serves: outside a call  *)
(* on it, active timers are in the pool, also after an init that failed    *)
(* with ENOMEM halfway or a deinit that was interrupted.                   *)
ActiveRegistered ==
  \A t \in Timers : obj[t].active /\ self # t => InPool(t)

(* The handler never follows a pool pointer to an object that the          *)
(* collector has freed, though the script may have dropped every handle.   *)
PoolAllocated == \A i \in Slots : slots[i] # NULL => slots[i] \in made

(* The bookkeeping of a call in progress, which makes the three invariants *)
(* inductive: which stores can be left where, that a slot is only stored   *)
(* for an unregistered timer while a slot is free, that it is only cleared *)
(* for a registered one, and that an active timer keeps or gets a slot.    *)
CallConsistent ==
  /\ pc = "idle" <=> self = NULL
  /\ self # NULL => self \in made
  /\ pc = "idle" => todo = {}
  /\ pc = "args" => /\ todo \subseteq InitArgs
                    /\ obj[self].active => InPool(self)
  /\ pc = "arm" => /\ todo \subseteq {"last_tick", "slot", "active"}
                   /\ obj[self].active \/ "active" \in todo
                        => InPool(self) \/ "slot" \in todo
  /\ pc = "deinit" => /\ todo \subseteq {"stop", "unslot"}
                      /\ "stop" \notin todo => ~obj[self].active
  /\ "slot" \in todo => Empty # {} /\ ~InPool(self)
  /\ "unslot" \in todo => InPool(self)

IInv == TypeOK /\ PoolInjective /\ ActiveRegistered /\ PoolAllocated /\ CallConsistent

(* "Precise ... timing": a timer fires in the tick its period ends, or, if *)
(* the init that armed it was hit by ticks, at most that much later; never *)
(* earlier and never with a wrapped difference.  A period of 0 means the   *)
(* next tick.                                                              *)
PreciseShot ==
  [][\A t \in Timers : Fire(t) =>
       LET due == IF obj[t].period = 0 THEN 1 ELSE obj[t].period
       IN  Elapsed(t) \in due .. due + MaxPreempt]_vars

(* What the script programmed, as one value, seen from the handler.        *)
Armed(t)  == obj[t].active /\ InPool(t)
Config(t) == [period |-> obj[t].period, mode |-> obj[t].mode, callback |-> obj[t].callback]

(* The timers the current pass of the handler has still to fire.           *)
Unserved == {t \in Timers : Due(t) /\ \E i \in scan .. MaxTimers - 1 : slots[i] = t}

(* A timer that is not armed. *)
Off == [period |-> 0]

(* timer.c implements AbstractTimer: the stores of init take effect at     *)
(* once when active is set, ages do not wrap, and slots do not matter.     *)
Abstract == INSTANCE AbstractTimer WITH
  config <- [t \in Timers |-> IF Armed(t) THEN Config(t) ELSE Off],
  age    <- [t \in Timers |-> IF Armed(t) THEN Elapsed(t) ELSE 0],
  due    <- Unserved,
  MaxLate <- MaxPreempt

AbstractSpec == Abstract!Spec

(* An armed one-shot does fire (or is deinit'ed), whatever its period,     *)
(* up to the last value a uint32_t holds.                                  *)
OneShotEnds ==
  \A t \in Timers :
    (obj[t].active /\ obj[t].mode = "ONE_SHOT") ~> ~obj[t].active

(* A periodic timer that is left alone fires again and again.              *)
PeriodicRepeats ==
  \A t \in Timers :
    <>[](Armed(t) /\ obj[t].mode = "PERIODIC") => []<><<Fire(t)>>_vars

=============================================================================
