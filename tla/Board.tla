------------------------------- MODULE Board -------------------------------
(***************************************************************************)
(* The life of the board: Reset_Handler and the main loop of main.c with   *)
(* its soft reboots, the sleeps and resets of modmachine.c, and the        *)
(* watchdog of wdt.c.                                                      *)
(*                                                                         *)
(* A soft reboot gives the heap away with gc_init while SysTick and the    *)
(* pin interrupts go on, and with them the tables that point into it.  A   *)
(* table is modelled by the oldest thing it points to: one of a heap that  *)
(* is gone, an object of the heap in use, or nothing.                      *)
(***************************************************************************)
EXTENDS Integers

CONSTANTS
  CyclesPerMs,   (* 27000                                                  *)
  Word,          (* 2^32: a register of the watchdog                       *)
  TickMod,       (* 2^32: ticks_ms is a uint32_t                           *)
  Timeouts,      (* WDT(timeout=), in ms                                   *)
  Delays,        (* lightsleep(ms); 0 stands for a call without argument   *)
  MaxLag         (* most ticks that callbacks overrun a sleep              *)

ASSUME BoardAssumption ==
  /\ {CyclesPerMs, Word, TickMod} \subseteq Nat \ {0}
  /\ Timeouts \subseteq Nat /\ Delays \subseteq Nat
  /\ MaxLag \in Nat \ {0}
  /\ \A d \in Delays : d + MaxLag < TickMod

VARIABLES
  pc,       (* where the main thread is                                    *)
  mode,     (* pyexec_mode_kind                                            *)
  tables,   (* the oldest object each table points to                      *)
  queue,    (* the scheduler's queue, seen the same way                    *)
  started,  (* SysTick runs                                                *)
  ticks,    (* ticks_ms                                                    *)
  phase,    (* cycles since the last tick                                  *)
  sleep,    (* the sleep under way: its delay, start and what follows it   *)
  wdt,      (* the registers of the watchdog                               *)
  asked,    (* history: the timeout asked for, in cycles                   *)
  since     (* history: cycles since make_new or feed, at most Word        *)

heap == <<mode, tables, queue>>
time == <<started, ticks, phase>>
dog  == <<wdt, asked, since>>
vars == <<pc, heap, time, sleep, dog>>

-----------------------------------------------------------------------------
(* Data *)

Ages == {"none", "cur", "old"}

(* active_timers and active_pwm, which a periodic interrupt follows;       *)
(* pin_irq_handler; pin_obj.                                               *)
Tables == {"pool", "irq", "pin"}

Boot     == {"gc_init", "mp_init", "mp_hal_init", "mount"}
Sleeping == {"check", "go", "wfi", "woken"}

NoSleep == [delay |-> 0, start |-> 0, deep |-> FALSE]
WdtOff  == [on |-> FALSE, load |-> 0, value |-> 0, raised |-> FALSE]
Empty   == [t \in Tables |-> "none"]

Older(a) == IF a = "cur" THEN "old" ELSE a

Oldest(S) == IF "old" \in S THEN "old" ELSE IF "cur" \in S THEN "cur" ELSE "none"

(* The queue after mp_sched_schedule of an entry; it may be full.          *)
Post(a) == {queue, Oldest({queue, a})} \ {"none"}

(* What may be left when some of what was no older than a is gone.         *)
UpTo(a) == {b \in Ages : Oldest({a, b}) = a}

(* An object of a heap that is gone is whatever took its place: following  *)
(* the pointer may go unnoticed or end in the fault handler.               *)
After(a, next) == IF a = "old" THEN {next, "hung"} ELSE {next}

-----------------------------------------------------------------------------
(* Boot *)

Stage(from, to) == pc = from /\ pc' = to

(* Mutant of Reset_Handler: .bss is not cleared. *)
MutReset_Handler ==
  /\ Stage("reset", "gc_init")
  /\ mode' = "friendly" /\ queue' = "none"
  /\ started' = FALSE /\ ticks' = 0 /\ phase' = 0
  /\ sleep' = NoSleep /\ wdt' = WdtOff /\ asked' = 0 /\ since' = 0
  /\ UNCHANGED tables

(* Reset: registers lose their contents, .data and .bss are set up again.  *)
Reset_Handler ==
  /\ Stage("reset", "gc_init")
  /\ mode' = "friendly" /\ tables' = Empty /\ queue' = "none"
  /\ started' = FALSE /\ ticks' = 0 /\ phase' = 0
  /\ sleep' = NoSleep /\ wdt' = WdtOff /\ asked' = 0 /\ since' = 0

(* Mutant of gc_init: the outer loop of main begins with the friendly REPL.*)
MutFriendlyBoot ==
  /\ Stage("gc_init", "mp_init")
  /\ mode' = "friendly"
  /\ tables' = [t \in Tables |-> Older(tables[t])]
  /\ queue' = Older(queue)
  /\ UNCHANGED <<time, sleep, dog>>

(* gc_init and gc_add: what the tables point to is free memory from now.   *)
gc_init ==
  /\ Stage("gc_init", "mp_init")
  /\ tables' = [t \in Tables |-> Older(tables[t])]
  /\ queue' = Older(queue)
  /\ UNCHANGED <<mode, time, sleep, dog>>

(* Mutant of mp_init: what handlers have queued is left to the new heap.   *)
MutMpInit ==
  /\ Stage("mp_init", "mp_hal_init")
  /\ UNCHANGED <<heap, time, sleep, dog>>

(* mp_init empties the scheduler's queue, and keeps the port's tables.     *)
mp_init ==
  /\ Stage("mp_init", "mp_hal_init")
  /\ queue' = "none"
  /\ UNCHANGED <<mode, tables, time, sleep, dog>>

(* SysTick starts from 0, also when it was running; ticks_ms goes on.      *)
mp_hal_init ==
  /\ Stage("mp_hal_init", "mount")
  /\ started' = TRUE /\ phase' = 0
  /\ UNCHANGED <<heap, ticks, sleep, dog>>

(* flash_init, bridge_init and the mount, whose exceptions are caught.     *)
Mount ==
  /\ Stage("mount", "repl")
  /\ UNCHANGED <<heap, time, sleep, dog>>

-----------------------------------------------------------------------------
(* The REPL *)

(* The inner loop of main is left.  mp_deinit does not touch the tables.   *)
SoftReboot(m) ==
  /\ Stage("repl", "gc_init")
  /\ mode' = m
  /\ UNCHANGED <<tables, queue, time, sleep, dog>>

(* pyexec_friendly_repl returns 0 when ctrl-A asks for the raw REPL; after *)
(* ctrl-D it returns PYEXEC_FORCED_EXIT and is called again.               *)
FriendlyRepl(key) ==
  /\ mode = "friendly" /\ key = "ctrl-A"
  /\ SoftReboot("raw")

(* pyexec_raw_repl returns 0 on ctrl-B, and PYEXEC_FORCED_EXIT on ctrl-D.  *)
RawRepl(key) ==
  \/ /\ mode = "raw" /\ key = "ctrl-D"
     /\ SoftReboot("raw")
  \/ /\ mode = "raw" /\ key = "ctrl-B"
     /\ Stage("repl", "repl") /\ mode' = "friendly"
     /\ UNCHANGED <<tables, queue, time, sleep, dog>>

(* Script code runs at the REPL, and in the callbacks of a sleep.          *)
Scripting ==
  \/ pc = "repl"
  \/ pc = "woken" /\ sleep.delay > 0 /\ queue # "none"

(* A script fills a table: a running Timer or PWM, a new Pin.  Pin(n) is   *)
(* what pin_obj holds already, if anything.                                *)
Register(t) ==
  /\ Scripting
  /\ tables' = [tables EXCEPT ![t] = IF @ = "none" THEN "cur" ELSE @]
  /\ UNCHANGED <<pc, mode, queue, time, sleep, dog>>

(* deinit of every Timer and PWM of this heap: no script can name those of *)
(* the heaps before.  Nothing removes a pin.                               *)
Unregister ==
  /\ Scripting
  /\ tables["pool"] = "cur"
  /\ tables' = [tables EXCEPT !["pool"] = "none"]
  /\ UNCHANGED <<pc, mode, queue, time, sleep, dog>>

(* irq(handler) and irq(None) of a pin that some Pin(n) has returned: they *)
(* follow the pointer, and the handler that was there may be the oldest.   *)
SetIrq(handler) ==
  /\ Scripting
  /\ tables["pin"] # "none"
  /\ \E others \in UpTo(tables["irq"]) :
       tables' = [tables EXCEPT !["irq"] = Oldest({others, handler})]
  /\ pc' \in After(tables["pin"], pc)
  /\ UNCHANGED <<mode, queue, time, sleep, dog>>

(* mp_handle_pending, called while the REPL waits for a character.         *)
RunPending ==
  /\ pc = "repl" /\ pc' \in After(queue, pc)
  /\ queue' \in UpTo(queue)
  /\ UNCHANGED <<mode, tables, time, sleep, dog>>

(* An exception nobody handles, or a failed assertion: nlr_jump_fail and   *)
(* __fatal_error loop for ever, as Default_Handler does.                   *)
Fatal ==
  /\ Stage("repl", "hung")
  /\ UNCHANGED <<heap, time, sleep, dog>>

-----------------------------------------------------------------------------
(* Time and interrupts *)

(* mp_hal_ticks_ms() - start, in uint32_t arithmetic. *)
Elapsed == (ticks - sleep.start) % TickMod

Tick == started /\ pc # "hung" /\ phase = CyclesPerMs - 1

(* A tick between the test of the loop and its wfi does not end that wfi.  *)
Woken == IF pc = "wfi" THEN "woken" ELSE pc
Reach == IF pc = "go" THEN "wfi" ELSE IF Tick THEN Woken ELSE pc

(* The watchdog's counter starts again at LOAD after 0; in coming to 0 it  *)
(* raises its interrupt, and resets the board if that is already raised.   *)
Counted == IF wdt.value = 0 THEN wdt.load ELSE wdt.value - 1
Zero    == wdt.on /\ Counted = 0

(* A cycle: ticks_ms and the callbacks of timers that are due, and the     *)
(* watchdog.  In a lockup nobody sees what the handlers still do.  The     *)
(* test of a sleep's loop is too short to be counted.                      *)
Cycle ==
  /\ pc \notin {"reset", "check"}
  /\ pc = "woken" => Elapsed < sleep.delay + MaxLag
  /\ phase' = IF started /\ pc # "hung" THEN (phase + 1) % CyclesPerMs ELSE phase
  /\ ticks' = IF Tick THEN (ticks + 1) % TickMod ELSE ticks
  /\ queue' \in {queue} \cup (IF Tick /\ tables["pool"] # "none"
                            THEN Post(tables["pool"]) ELSE {})
  /\ since' = IF wdt.on /\ since < Word THEN since + 1 ELSE since
  /\ UNCHANGED <<mode, tables, started, sleep, asked>>

(* Mutant of Count: SysTick_Handler feeds the watchdog. *)
MutFeedingTick ==
  /\ ~Zero /\ Cycle
  /\ wdt' = IF ~wdt.on THEN wdt
            ELSE IF started /\ phase = CyclesPerMs - 1 THEN [wdt EXCEPT !.value = wdt.load, !.raised = FALSE]
            ELSE [wdt EXCEPT !.value = Counted]
  /\ pc' \in After(IF Tick THEN tables["pool"] ELSE "none", Reach)

Count ==
  /\ ~Zero /\ Cycle
  /\ wdt' = IF wdt.on THEN [wdt EXCEPT !.value = Counted] ELSE wdt
  /\ pc' \in After(IF Tick THEN tables["pool"] ELSE "none", Reach)

(* Whether the interrupt reaches the processor, and so Default_Handler as  *)
(* NMI, is not in the board's documents.                                   *)
Bark ==
  /\ Zero /\ ~wdt.raised /\ Cycle
  /\ wdt' = [wdt EXCEPT !.value = 0, !.raised = TRUE]
  /\ pc' \in After(IF Tick THEN tables["pool"] ELSE "none", Reach) \cup {"hung"}

Bite ==
  /\ Zero /\ wdt.raised /\ Cycle
  /\ wdt' = [wdt EXCEPT !.value = 0]
  /\ pc' = "reset"

(* machine_pwm_tick follows active_pwm. *)
TIMER1_Handler ==
  /\ started /\ pc \notin {"reset", "hung"} /\ tables["pool"] # "none"
  /\ pc' \in After(tables["pool"], Woken)
  /\ UNCHANGED <<heap, time, sleep, dog>>

(* machine_pin_dispatch_irq passes on the handler and the pin.             *)
GPIO_Handler ==
  /\ started /\ pc \notin {"reset", "hung"} /\ tables["irq"] # "none"
  /\ pc' = Woken
  /\ queue' \in Post(Oldest({tables["irq"], tables["pin"]}))
  /\ UNCHANGED <<mode, tables, time, sleep, dog>>

-----------------------------------------------------------------------------
(* modmachine.c and wdt.c *)

(* lightsleep and deepsleep; without an argument they wait for one         *)
(* interrupt, as idle does.  A delay that is not positive does nothing, or *)
(* no more than machine_reset.                                             *)
Lightsleep(d, deep) ==
  /\ Stage("repl", IF d = 0 THEN "go" ELSE "check")
  /\ sleep' = [delay |-> d, start |-> IF d = 0 THEN 0 ELSE ticks, deep |-> deep]
  /\ UNCHANGED <<heap, time, dog>>

(* Mutants of Slept: a sum without the uint32_t, `<=' for `<'.             *)
MutSleptNoWrap == ticks >= sleep.start + sleep.delay
MutSleptLater  == Elapsed > sleep.delay

(* The loop of lightsleep ends. *)
Slept == Elapsed >= sleep.delay

(* The call returns; deepsleep goes on to machine_reset, which waits.      *)
Wake ==
  /\ pc' = IF sleep.deep THEN "reset" ELSE "repl"
  /\ sleep' = NoSleep
  /\ UNCHANGED <<heap, time, dog>>

Check ==
  \/ pc = "check" /\ Slept /\ Wake
  \/ /\ Stage("check", "go") /\ ~Slept
     /\ UNCHANGED <<heap, time, sleep, dog>>

Wfi ==
  /\ Stage("go", "wfi")
  /\ UNCHANGED <<heap, time, sleep, dog>>

(* After wfi: mp_handle_pending, or the end of a sleep without a delay.    *)
AfterWfi ==
  \/ pc = "woken" /\ sleep.delay = 0 /\ Wake
  \/ /\ pc = "woken" /\ sleep.delay > 0
     /\ pc' \in After(queue, "check") /\ queue' \in UpTo(queue)
     /\ UNCHANGED <<mode, tables, time, sleep, dog>>

machine_reset ==
  /\ Stage("repl", "reset")
  /\ UNCHANGED <<heap, time, sleep, dog>>

(* Mutants of LoadFor: milliseconds for cycles, a product without a width. *)
MutLoadMs(t)   == t % Word
MutLoadWide(t) == t * CyclesPerMs

(* timeout_ms * 27000, in uint32_t arithmetic. *)
LoadFor(t) == (t * CyclesPerMs) % Word

(* The store to LOAD reloads the counter, and leaves a raised interrupt.   *)
machine_wdt_make_new(t) ==
  /\ Scripting
  /\ wdt' = [on |-> TRUE, load |-> LoadFor(t), value |-> LoadFor(t), raised |-> wdt.raised]
  /\ asked' = t * CyclesPerMs /\ since' = 0
  /\ UNCHANGED <<pc, heap, time, sleep>>

(* The store to INTCLR does both.  A WDT object comes from make_new.       *)
machine_wdt_feed ==
  /\ Scripting /\ wdt.on
  /\ wdt' = [wdt EXCEPT !.value = wdt.load, !.raised = FALSE]
  /\ since' = 0
  /\ UNCHANGED <<pc, heap, time, sleep, asked>>

-----------------------------------------------------------------------------
(* Specification *)

(* The watchdog and SysTick are off; power-on is a reset. *)
Init ==
  /\ pc = "reset"
  /\ mode = "friendly" /\ tables = Empty /\ queue = "none"
  /\ started = FALSE /\ ticks = 0 /\ phase = 0
  /\ sleep = NoSleep /\ wdt = WdtOff /\ asked = 0 /\ since = 0

Clock   == Count \/ Bark \/ Bite
Handler == TIMER1_Handler \/ GPIO_Handler

(* What the main thread does without being told to. *)
Program ==
  \/ Reset_Handler \/ gc_init \/ mp_init \/ mp_hal_init \/ Mount
  \/ Check \/ Wfi \/ AfterWfi

Script ==
  \/ \E key \in {"ctrl-A", "ctrl-B", "ctrl-D"} : FriendlyRepl(key) \/ RawRepl(key)
  \/ (\E t \in {"pool", "pin"} : Register(t)) \/ Unregister
  \/ \E handler \in {"none", "cur"} : SetIrq(handler)
  \/ \E d \in Delays, deep \in BOOLEAN : Lightsleep(d, deep)
  \/ \E t \in Timeouts : machine_wdt_make_new(t)
  \/ machine_wdt_feed \/ machine_reset \/ RunPending \/ Fatal

Next == Clock \/ Handler \/ Program \/ Script

Spec == Init /\ [][Next]_vars

(* The oscillator runs, whatever interrupts arrive between its cycles and  *)
(* steps that take none, and the processor executes the program.           *)
LiveSpec == Spec /\ SF_vars(Clock) /\ WF_vars(Program)

-----------------------------------------------------------------------------
(* Correctness *)

(* Every variable keeps its type; ticks_ms and the registers of the        *)
(* watchdog stay machine words.                                            *)
TypeOK ==
  /\ pc \in Boot \cup Sleeping \cup {"reset", "repl", "hung"}
  /\ mode \in {"friendly", "raw"}
  /\ tables \in [Tables -> Ages] /\ queue \in Ages
  /\ started \in BOOLEAN
  /\ ticks \in 0 .. TickMod - 1 /\ phase \in 0 .. CyclesPerMs - 1
  /\ sleep \in [delay : Delays \cup {0}, start : 0 .. TickMod - 1, deep : BOOLEAN]
  /\ wdt \in [on : BOOLEAN, load : 0 .. Word - 1, value : 0 .. Word - 1, raised : BOOLEAN]
  /\ asked \in {0} \cup {t * CyclesPerMs : t \in Timeouts} /\ since \in 0 .. Word

(* "Automatic heap management and object lifecycle tracking": no callback  *)
(* runs with an object of a heap that is gone.  A soft reboot with a       *)
(* running timer, or with a pin that has a handler, breaks this.           *)
HeapSafe == pc \in Sleeping \cup {"repl"} => queue # "old"

(* The damage comes from the port's tables alone: what handlers have       *)
(* queued before the soft reboot, or while gc_init and mp_init set up the  *)
(* new heap, is dropped, so a callback about a lost object is queued only  *)
(* while a Timer or PWM, or a Pin, of a lost heap is still in its table;   *)
(* and no pin has a handler of a lost heap without being of one itself.    *)
LostFromTables ==
  /\ pc \notin {"mp_init", "hung", "reset"} /\ queue = "old"
       => tables["pool"] = "old" \/ tables["pin"] = "old"
  /\ tables["irq"] = "old" => tables["pin"] = "old"

(* The watchdog stops or resets nobody before the timeout has passed that  *)
(* was asked for, counted from the last make_new or feed, also when it had *)
(* raised its interrupt before.  Timeouts above 159 s do not fit LOAD.     *)
NoEarlyBite == [][Bark \/ Bite => asked >= Word \/ since' >= asked]_vars

(* "Hardware Watchdog Timer to prevent system lockups": with the watchdog  *)
(* armed, a lockup ends in a fresh REPL, and what may have caused it, the  *)
(* objects of a lost heap in the port's tables, is gone.                   *)
LockupEnds == pc = "hung" /\ wdt.on ~> pc = "repl" /\ tables = Empty /\ ~wdt.on

(* lightsleep(d) does not return before d ticks; it waits for no interrupt *)
(* after the tick that follows its end, even if that tick came between the *)
(* test of its loop and the wfi; and the wrap of ticks_ms changes nothing. *)
SleepsItsTime ==
  [][/\ sleep.delay > 0 /\ sleep' = NoSleep /\ pc # "reset" => Elapsed >= sleep.delay
     /\ sleep.delay > 0 /\ pc = "wfi" => Elapsed <= sleep.delay]_vars

(* Every sleep ends, and deepsleep in a reset, unless a callback crashed.  *)
SleepEnds ==
  /\ pc \in Sleeping ~> pc \notin Sleeping
  /\ pc \in Sleeping /\ sleep.deep ~> pc \in {"reset", "hung"}

(* Ctrl-A reaches the raw REPL through the soft reboot it causes, unless   *)
(* that ends in a lockup or a reset; after a reset SysTick is still off.   *)
RawReached ==
  pc = "gc_init" /\ started ~> (pc = "repl" /\ mode = "raw") \/ pc \in {"hung", "reset"}

=============================================================================
