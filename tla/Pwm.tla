-------------------------------- MODULE Pwm --------------------------------
(***************************************************************************)
(* machine.PWM (pwm.c) and everything else that drives the GPIO outputs:   *)
(* machine.Pin (pin.c) and FPGABridge.write (bridge.c).                    *)
(*                                                                         *)
(* PWM is done in software.  TIMER1 interrupts PWM_RESOLUTION times per    *)
(* period and its handler sets or clears one bit of DATAOUT for every      *)
(* registered PWM.  A pin write of the main thread is a load and a store   *)
(* of the same register, and the handler may run in between; the handler   *)
(* itself is not interrupted, so it is one step.  The other calls of the   *)
(* main thread store fields the handler reads one at a time, so they too   *)
(* are one step.                                                           *)
(*                                                                         *)
(* SoftI2C uses a pin as an open-drain line through mphalport.h: a line is *)
(* released by making the pin an input, and pulled low by writing 0 and    *)
(* then making it an output.                                               *)
(***************************************************************************)
EXTENDS Integers, FiniteSets

CONSTANTS
  Pwms,          (* PWM objects the heap has room for                      *)
  Pins,          (* GPIO pins 0 .. 15                                      *)
  NULL,          (* the null pointer                                       *)
  MaxPwm,        (* MAX_PWM                                                *)
  Resolution,    (* PWM_RESOLUTION                                         *)
  DutyRange,     (* 1024: duty= counts from 0 to DutyRange - 1             *)
  CpuFreq,       (* CPU_FREQ                                               *)
  Word,          (* 2^32                                                   *)
  Freqs, Duties  (* the freq= and duty= arguments scripts pass             *)

ASSUME PwmAssumption ==
  /\ NULL \notin Pwms \cup Pins
  /\ Pins # {}
  /\ MaxPwm \in Nat \ {0}
  /\ Resolution \in Nat \ {0}
  /\ DutyRange \in Nat \ {0}
  /\ CpuFreq \in Nat
  /\ Word \in Nat \ {0}
  /\ DutyRange * Resolution < Word      (* 1024 * 100, far below 2^32 *)
  /\ Freqs \subseteq 0 .. Word - 1
  /\ Duties \subseteq 0 .. Word - 1

VARIABLES
  counter,    (* pwm_tick_counter                                          *)
  slots,      (* MP_STATE_PORT(active_pwm), indices 0 .. MaxPwm - 1        *)
  pwm,        (* machine_pwm_obj_t of every object                         *)
  made,       (* objects that are allocated                                *)
  reload,     (* TIMER1_RELOAD                                             *)
  running,    (* TIMER1_CTRL and NVIC enabled                              *)
  out,        (* the pins whose bit of DATAOUT is 1                        *)
  outen,      (* the pins whose output driver is enabled                   *)
  rmw,        (* the pin write under way in the main thread, if any        *)
  drive,      (* the pin mp_hal_pin_od_low has still to make an output     *)
  (* History: *)
  level,      (* what the last writer of each pin wanted it to be          *)
  od          (* open-drain lines: pins last used as one                   *)

timer == <<counter, reload, running>>
pool  == <<slots, pwm, made>>
gpio  == <<out, outen, rmw, drive, level, od>>
vars  == <<timer, pool, gpio>>

-----------------------------------------------------------------------------
(* Data *)

Slots   == 0 .. MaxPwm - 1
Absent  == -1                      (* freq= or duty= not given *)
NoWrite == [pin |-> NULL]

(* The main thread is between two calls. *)
Idle == rmw = NoWrite /\ drive = NULL

(* threshold = duty * PWM_RESOLUTION / 1024, in uint32_t.                  *)
Threshold(d) == ((d * Resolution) % Word) \div DutyRange

Pwm == [pin : Pins, freq : Freqs \cup {1}, duty : Duties \cup {DutyRange \div 2},
        threshold : 0 .. Word - 1, active : BOOLEAN]

(* make_new's defaults: freq 1000, which the model counts in, and duty 512. *)
FreshPwm(p) == [pin |-> p, freq |-> 1, duty |-> DutyRange \div 2,
                threshold |-> Threshold(DutyRange \div 2), active |-> FALSE]

InPool(x) == \E i \in Slots : slots[i] = x

Active(x)  == x \in made /\ pwm[x].active
ActiveOn(p) == {x \in Pwms : Active(x) /\ pwm[x].pin = p}

(* CPU_FREQ / (freq * PWM_RESOLUTION) - 1, in uint32_t; dividing by zero   *)
(* yields zero on this core.                                               *)
Reload(f) == LET ticks == (f * Resolution) % Word
             IN  ((IF ticks = 0 THEN 0 ELSE CpuFreq \div ticks) - 1) % Word

(* update_timer_freq: there is one TIMER1 for all PWMs.                    *)
SetReload(f) == reload' = IF f = 0 THEN reload ELSE Reload(f)

(* Mutant of SlotsFor: the search stops at the first NULL slot.            *)
MutSlotsForFirst(x) == {i \in Slots : slots[i] \in {NULL, x} /\ \A j \in 0 .. i - 1 : slots[j] \notin {NULL, x}}

(* The search of init: the slot that holds x, or else the first NULL one.  *)
SlotsFor(x) == IF InPool(x) THEN {i \in Slots : slots[i] = x}
               ELSE {i \in Slots : slots[i] = NULL /\ \A j \in 0 .. i - 1 : slots[j] # NULL}

-----------------------------------------------------------------------------
(* Main thread: machine.PWM *)

(* PWM(pin): the pin becomes an output. *)
MakeNew(x, p) ==
  /\ x \notin made
  /\ made' = made \cup {x}
  /\ pwm' = [pwm EXCEPT ![x] = FreshPwm(p)]
  /\ outen' = outen \cup {p} /\ od' = od \ {p}
  /\ UNCHANGED <<timer, slots, out, rmw, drive, level>>

(* The script has dropped x and the collector finds it nowhere. *)
Collect(x) ==
  /\ x \in made
  /\ ~InPool(x)
  /\ made' = made \ {x}
  /\ UNCHANGED <<timer, slots, pwm, gpio>>

(* init(freq=, duty=).  With no free slot the PWM stays inactive and the   *)
(* call returns as if it had succeeded; TIMER1 is started all the same.    *)
PwmInit(x, f, d) ==
  /\ x \in made
  /\ LET new == [pwm[x] EXCEPT !.freq = IF f = Absent THEN @ ELSE f,
                               !.duty = IF d = Absent THEN @ ELSE d,
                               !.threshold = IF d = Absent THEN @ ELSE Threshold(d)]
     IN  /\ \/ /\ SlotsFor(x) = {}
               /\ pwm' = [pwm EXCEPT ![x] = new]
               /\ UNCHANGED slots
            \/ \E i \in SlotsFor(x) :
               /\ slots' = [slots EXCEPT ![i] = x]
               /\ pwm' = [pwm EXCEPT ![x] = [new EXCEPT !.active = TRUE]]
         /\ SetReload(new.freq)
  /\ running' = TRUE
  /\ UNCHANGED <<counter, made, gpio>>

(* deinit(): the pin keeps the level the handler left it at. *)
Deinit(x) ==
  /\ x \in made
  /\ pwm' = [pwm EXCEPT ![x].active = FALSE]
  /\ slots' = [i \in Slots |->
                 IF slots[i] = x /\ \A j \in 0 .. i - 1 : slots[j] # x THEN NULL ELSE slots[i]]
  /\ level' = [level EXCEPT ![pwm[x].pin] = pwm[x].pin \in out]
  /\ UNCHANGED <<timer, made, out, outen, rmw, drive, od>>

(* freq(f) and duty(d). *)
SetFreq(x, f) ==
  /\ x \in made
  /\ pwm' = [pwm EXCEPT ![x].freq = f]
  /\ SetReload(f)
  /\ UNCHANGED <<counter, running, slots, made, gpio>>

SetDuty(x, d) ==
  /\ x \in made
  /\ pwm' = [pwm EXCEPT ![x].duty = d, ![x].threshold = Threshold(d)]
  /\ UNCHANGED <<timer, slots, made, gpio>>

-----------------------------------------------------------------------------
(* Main thread: machine.Pin and FPGABridge *)

(* Pin(p, mode): OUTENSET or OUTENCLR. *)
PinMode(p, output) ==
  /\ outen' = IF output THEN outen \cup {p} ELSE outen \ {p}
  /\ od' = od \ {p}
  /\ UNCHANGED <<timer, pool, out, rmw, drive, level>>

(* MP_PIN_INPUT and MP_PIN_OUTPUT do the same. *)
PinIoctl(p, output) == PinMode(p, output)

(* value(v), on(), off(), MP_PIN_WRITE and init(value=): REG_DATAOUT |= bit *)
(* or &= ~bit, a load ...                                                  *)
WriteLoad(p, v) ==
  /\ rmw' = [pin |-> p, value |-> v, loaded |-> out]
  /\ od' = od \ {p}
  /\ UNCHANGED <<timer, pool, out, outen, drive, level>>

(* ... and a store, which puts all other pins back to what they were when  *)
(* they were loaded: after a tick, not what the PWMs have set them to.     *)
WriteStore ==
  /\ rmw # NoWrite
  /\ out' = IF rmw.value THEN rmw.loaded \cup {rmw.pin} ELSE rmw.loaded \ {rmw.pin}
  /\ level' = [level EXCEPT ![rmw.pin] = rmw.value]
  /\ rmw' = NoWrite
  /\ UNCHANGED <<timer, pool, outen, drive, od>>

(* Mutant of mp_hal_pin_od_low: the output is enabled first. *)
MutOdLowEnables(p) ==
  /\ rmw' = [pin |-> p, value |-> FALSE, loaded |-> out]
  /\ outen' = outen \cup {p} /\ drive' = p
  /\ UNCHANGED <<timer, pool, out, level, od>>

(* mp_hal_pin_od_low: mp_hal_pin_low, a write like any other ...           *)
mp_hal_pin_od_low(p) ==
  /\ rmw' = [pin |-> p, value |-> FALSE, loaded |-> out]
  /\ drive' = p
  /\ UNCHANGED <<timer, pool, out, outen, level, od>>

(* ... and then mp_hal_pin_output.  A pin with a PWM is no line.           *)
OdDrive ==
  /\ rmw = NoWrite /\ drive # NULL
  /\ outen' = outen \cup {drive} /\ drive' = NULL
  /\ od' = IF ActiveOn(drive) = {} THEN od \cup {drive} ELSE od \ {drive}
  /\ UNCHANGED <<timer, pool, out, rmw, level>>

(* mp_hal_pin_od_high: mp_hal_pin_input. *)
mp_hal_pin_od_high(p) ==
  /\ outen' = outen \ {p} /\ od' = od \cup {p}
  /\ UNCHANGED <<timer, pool, out, rmw, drive, level>>

(* write(val): all sixteen bits at once. *)
BridgeWrite(S) ==
  /\ out' = S
  /\ level' = [p \in Pins |-> p \in S]
  /\ od' = {}
  /\ UNCHANGED <<timer, pool, outen, rmw, drive>>

-----------------------------------------------------------------------------
(* TIMER1_Handler and machine_pwm_tick *)

(* Mutants: a period of PWM_RESOLUTION + 1 ticks; `<=' for `<'; the        *)
(* register assigned where it should be masked.                            *)
MutNextCount == IF counter + 1 > Resolution THEN 0 ELSE counter + 1
MutHigh(x)   == counter' <= pwm[x].threshold

NextCount == IF counter + 1 >= Resolution THEN 0 ELSE counter + 1

High(x) == counter' < pwm[x].threshold

(* The loop visits the slots in order, so of several PWMs on one pin the   *)
(* one in the last slot decides.                                           *)
DrivingSlots(p) == {i \in Slots : slots[i] # NULL /\ pwm[slots[i]].active /\ pwm[slots[i]].pin = p}
Decides(i, p)   == i \in DrivingSlots(p) /\ \A j \in DrivingSlots(p) : j <= i

MutLevelAfterTick(p) == \E i \in Slots : Decides(i, p) /\ High(slots[i])

LevelAfterTick(p) == IF DrivingSlots(p) = {} THEN p \in out
                     ELSE \E i \in Slots : Decides(i, p) /\ High(slots[i])

Tick ==
  /\ running
  /\ counter' = NextCount
  /\ out' = {p \in Pins : LevelAfterTick(p)}
  /\ level' = [p \in Pins |-> IF DrivingSlots(p) = {} THEN level[p] ELSE p \in out']
  /\ od' = {p \in od : DrivingSlots(p) = {}}
  /\ UNCHANGED <<reload, running, pool, outen, rmw, drive>>

-----------------------------------------------------------------------------
(* Specification *)

(* After mp_hal_init and bridge_init. *)
Init ==
  /\ counter = 0 /\ reload = 0 /\ running = FALSE
  /\ slots = [i \in Slots |-> NULL]
  /\ pwm \in [Pwms -> {FreshPwm(CHOOSE p \in Pins : TRUE)}]
  /\ made = {}
  /\ out = {} /\ outen = Pins /\ rmw = NoWrite /\ drive = NULL
  /\ level = [p \in Pins |-> FALSE] /\ od = {}

(* The main thread is in one call at a time. *)
PwmCall ==
  /\ Idle
  /\ \E x \in Pwms :
       \/ \E p \in Pins : MakeNew(x, p)
       \/ Collect(x)
       \/ \E f \in Freqs \cup {Absent}, d \in Duties \cup {Absent} : PwmInit(x, f, d)
       \/ Deinit(x)
       \/ \E f \in Freqs : SetFreq(x, f)
       \/ \E d \in Duties : SetDuty(x, d)

(* write() of the bridge. *)
BridgeCall == Idle /\ \E S \in SUBSET Pins : BridgeWrite(S)

(* Calls of a pin that do not store to DATAOUT, and loads of those that do. *)
PinCall ==
  \/ OdDrive
  \/ /\ Idle
     /\ \/ \E p \in Pins, v \in BOOLEAN : WriteLoad(p, v) \/ PinMode(p, v) \/ PinIoctl(p, v)
        \/ \E p \in Pins : mp_hal_pin_od_low(p) \/ mp_hal_pin_od_high(p)

Next == PwmCall \/ PinCall \/ BridgeCall \/ WriteStore \/ Tick

Spec == Init /\ [][Next]_vars

-----------------------------------------------------------------------------
(* Correctness *)

TypeOK ==
  /\ counter \in 0 .. Resolution - 1
  /\ slots \in [Slots -> Pwms \cup {NULL}]
  /\ pwm \in [Pwms -> Pwm]
  /\ made \subseteq Pwms
  /\ reload \in 0 .. Word - 1 /\ running \in BOOLEAN
  /\ out \subseteq Pins /\ outen \subseteq Pins
  /\ rmw \in {NoWrite} \cup [pin : Pins, value : BOOLEAN, loaded : SUBSET Pins]
  /\ drive \in Pins \cup {NULL}
  /\ level \in [Pins -> BOOLEAN] /\ od \subseteq Pins

(* No PWM holds two slots, though a slot before its own may fall free and  *)
(* init searches again; and the ones in the pool are exactly the active    *)
(* ones, all of them allocated: deinit leaves nothing behind that the      *)
(* handler would go on driving.                                            *)
PoolExact ==
  /\ \A i, j \in Slots : slots[i] = slots[j] /\ slots[i] # NULL => i = j
  /\ \A x \in Pwms : InPool(x) <=> Active(x)

(* A pin without PWM keeps what the script last wrote to it, though the    *)
(* handler rewrites the same register at any moment.                       *)
PlainPinsHeld == \A p \in Pins : ActiveOn(p) = {} => (p \in out) = level[p]

(* An open-drain line is never driven high, whatever else is written to    *)
(* DATAOUT and whenever the handler runs in the middle of a write: another *)
(* device may be pulling it low.                                           *)
OpenDrain == \A p \in od : p \in out => p \notin outen

=============================================================================
