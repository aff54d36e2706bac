----------------------------- MODULE PwmProofs -----------------------------
(***************************************************************************)
(* The pool of pwm.c and the output register it shares with pin.c are safe *)
(* for every number of PWMs, slots, pins, frequencies and duties.          *)
(***************************************************************************)
EXTENDS PwmWave, TLAPS

(* In the middle of a pin write, the levels it has loaded for plain pins   *)
(* are still right: the tick that may have come meanwhile changed none.    *)
LoadedHeld ==
  rmw # NoWrite => \A p \in Pins : ActiveOn(p) = {} => (p \in rmw.loaded) = level[p]

PwmInv == TypeOK /\ PoolExact /\ PlainPinsHeld /\ LoadedHeld

-----------------------------------------------------------------------------
(* Arithmetic of uint32_t and types of the objects *)

LEMMA DivBound ==
  ASSUME NEW a \in Nat, NEW b \in Nat \ {0}
  PROVE  a \div b \in Nat /\ a \div b <= a
OBVIOUS

LEMMA ThresholdType ==
  ASSUME NEW d \in Nat
  PROVE  Threshold(d) \in 0 .. Word - 1
<1>1. (d * Resolution) % Word \in 0 .. Word - 1
  BY PwmAssumption
<1>. QED
  BY <1>1, DivBound, PwmAssumption DEF Threshold

LEMMA DutyTypes == Duties \cup {DutyRange \div 2} \subseteq Nat
BY PwmAssumption

LEMMA FreshType ==
  ASSUME NEW p \in Pins
  PROVE  FreshPwm(p) \in Pwm /\ ~FreshPwm(p).active
BY ThresholdType, DutyTypes DEF FreshPwm, Pwm

LEMMA ReloadType ==
  ASSUME NEW f \in Int
  PROVE  Reload(f) \in 0 .. Word - 1
<1>. DEFINE ticks == (f * Resolution) % Word
            quot  == IF ticks = 0 THEN 0 ELSE CpuFreq \div ticks
<1>1. ticks \in Nat
  BY PwmAssumption
<1>2. quot \in Int
  BY <1>1, PwmAssumption
<1>3. (quot - 1) % Word \in 0 .. Word - 1
  <2>. HIDE DEF quot
  <2>. QED BY <1>2, PwmAssumption
<1>. QED
  BY <1>3 DEF Reload

-----------------------------------------------------------------------------
(* The script's calls of machine.PWM *)

LEMMA InitInv == Init => PwmInv
<1>. SUFFICES ASSUME Init PROVE PwmInv
  OBVIOUS
<1>1. (CHOOSE p \in Pins : TRUE) \in Pins
  BY PwmAssumption
<1>2. pwm \in [Pwms -> Pwm]
  BY <1>1, FreshType DEF Init
<1>3. TypeOK
  <2>1. counter \in 0 .. Resolution - 1 /\ reload \in 0 .. Word - 1
    BY PwmAssumption DEF Init
  <2>5. running \in BOOLEAN
    BY DEF Init
  <2>2. slots \in [Slots -> Pwms \cup {NULL}] /\ level \in [Pins -> BOOLEAN]
    BY DEF Init
  <2>4. rmw \in {NoWrite}
    BY DEF Init
  <2>6. drive \in Pins \cup {NULL} /\ od \subseteq Pins
    BY DEF Init
  <2>. QED
    BY <1>2, <2>1, <2>2, <2>4, <2>5, <2>6 DEF Init, TypeOK
<1>4. LoadedHeld /\ PlainPinsHeld
  <2>2. LoadedHeld
    BY DEF Init, LoadedHeld
  <2>3. ASSUME NEW p \in Pins PROVE (p \in out) = level[p]
    <3>1. (p \in out) = FALSE
      BY DEF Init
    <3>2. level[p] = FALSE
      BY DEF Init
    <3>. QED
      BY <3>1, <3>2, Zenon
  <2>4. PlainPinsHeld
    BY <2>3 DEF PlainPinsHeld
  <2>. QED
    BY <2>2, <2>4
<1>5. PoolExact
  <2>1. \A i \in Slots : slots[i] = NULL
    BY DEF Init
  <2>2. \A x \in Pwms : ~InPool(x) /\ ~Active(x)
    BY <2>1, PwmAssumption DEF Init, InPool, Active
  <2>. QED
    BY <2>1, <2>2 DEF PoolExact
<1>. QED
  BY <1>3, <1>4, <1>5 DEF PwmInv

(* A call between pin writes has loaded nothing. *)
LEMMA CallBetweenWrites ==
  ASSUME rmw = NoWrite, UNCHANGED rmw
  PROVE  LoadedHeld'
BY DEF LoadedHeld, NoWrite

LEMMA MakeNewInv ==
  ASSUME PwmInv, NEW x \in Pwms, NEW p \in Pins, rmw = NoWrite, MakeNew(x, p)
  PROVE  PwmInv'
<1>. USE DEF PwmInv, MakeNew, timer
<1>1. TypeOK'
  BY FreshType DEF TypeOK
<1>2. LoadedHeld'
  BY CallBetweenWrites
<1>3. \A y \in Pwms : Active(y)' <=> Active(y)
  BY FreshType DEF TypeOK, Active
<1>4. PoolExact'
  BY <1>3 DEF PoolExact, InPool
<1>5. \A q \in Pins : ActiveOn(q)' = ActiveOn(q)
  BY <1>3 DEF ActiveOn, TypeOK, Active
<1>6. PlainPinsHeld'
  BY <1>5 DEF PlainPinsHeld
<1>. QED
  BY <1>1, <1>2, <1>4, <1>6

LEMMA CollectInv ==
  ASSUME PwmInv, NEW x \in Pwms, rmw = NoWrite, Collect(x)
  PROVE  PwmInv'
<1>. USE DEF PwmInv, Collect, timer, gpio
<1>1. TypeOK'
  BY DEF TypeOK
<1>2. LoadedHeld'
  BY CallBetweenWrites
<1>3. \A y \in Pwms : Active(y)' <=> Active(y)
  BY DEF Active, PoolExact
<1>4. PoolExact'
  BY <1>3 DEF PoolExact, InPool
<1>5. PlainPinsHeld'
  BY <1>3 DEF PlainPinsHeld, ActiveOn
<1>. QED
  BY <1>1, <1>2, <1>4, <1>5

(* init: the slot it fills is the PWM's own or a free one; if there is     *)
(* none, the PWM was not active and stays so.                              *)
LEMMA PwmInitInv ==
  ASSUME PwmInv, rmw = NoWrite, NEW x \in Pwms,
         NEW f \in Freqs \cup {Absent}, NEW d \in Duties \cup {Absent}, PwmInit(x, f, d)
  PROVE  PwmInv'
<1>. USE DEF PwmInv
<1>. DEFINE new == [pwm[x] EXCEPT !.freq = IF f = Absent THEN @ ELSE f,
                                  !.duty = IF d = Absent THEN @ ELSE d,
                                  !.threshold = IF d = Absent THEN @ ELSE Threshold(d)]
<1>1. new \in Pwm /\ new.active = pwm[x].active /\ new.pin = pwm[x].pin /\ new.freq \in Int
  <2>1. pwm[x] \in Pwm
    BY DEF TypeOK
  <2>. DEFINE fr == IF f = Absent THEN pwm[x].freq ELSE f
              du == IF d = Absent THEN pwm[x].duty ELSE d
              th == IF d = Absent THEN pwm[x].threshold ELSE Threshold(d)
  <2>2. fr \in Freqs \cup {1}
    BY <2>1 DEF Pwm
  <2>3. du \in Duties \cup {DutyRange \div 2} /\ th \in 0 .. Word - 1
    BY <2>1, ThresholdType, DutyTypes DEF Pwm
  <2>4. new = [pwm[x] EXCEPT !.freq = fr, !.duty = du, !.threshold = th]
    OBVIOUS
  <2>. HIDE DEF fr, du, th, new
  <2>5. fr \in Int
    BY <2>2, PwmAssumption
  <2>. QED
    BY <2>1, <2>2, <2>3, <2>4, <2>5 DEF Pwm
<1>2. x \in made /\ UNCHANGED <<counter, made, gpio>> /\ running' = TRUE
      /\ SetReload(new.freq)
  BY DEF PwmInit
<1>3. \/ /\ SlotsFor(x) = {} /\ UNCHANGED slots
         /\ pwm' = [pwm EXCEPT ![x] = new]
      \/ \E i \in SlotsFor(x) : /\ slots' = [slots EXCEPT ![i] = x]
                                /\ pwm' = [pwm EXCEPT ![x] = [new EXCEPT !.active = TRUE]]
  BY DEF PwmInit
<1>. HIDE DEF new
<1>4. [new EXCEPT !.active = TRUE] \in Pwm /\ [new EXCEPT !.active = TRUE].pin = pwm[x].pin
      /\ [new EXCEPT !.active = TRUE].active
  BY <1>1 DEF Pwm
<1>5. reload' \in 0 .. Word - 1
  BY <1>1, <1>2, ReloadType DEF SetReload, TypeOK
<1>6. pwm' \in [Pwms -> Pwm] /\ slots' \in [Slots -> Pwms \cup {NULL}]
  BY <1>1, <1>3, <1>4 DEF TypeOK, SlotsFor
<1>7. TypeOK'
  BY <1>2, <1>5, <1>6 DEF TypeOK, gpio
<1>8. LoadedHeld'
  BY <1>2, CallBetweenWrites DEF gpio
<1>9. \A y \in Pwms : y # x => pwm'[y] = pwm[y]
  BY <1>3 DEF TypeOK
<1>10. pwm'[x].pin = pwm[x].pin
  BY <1>1, <1>3, <1>4 DEF TypeOK
<1>11. CASE SlotsFor(x) = {} /\ UNCHANGED slots /\ pwm' = [pwm EXCEPT ![x] = new]
  <2>1. \A y \in Pwms : Active(y)' <=> Active(y)
    BY <1>1, <1>2, <1>11 DEF Active, TypeOK
  <2>2. PoolExact'
    BY <1>11, <2>1 DEF PoolExact, InPool
  <2>3. PlainPinsHeld'
    BY <1>2, <1>9, <1>10, <2>1 DEF PlainPinsHeld, ActiveOn, gpio
  <2>. QED
    BY <1>7, <1>8, <2>2, <2>3
<1>12. ASSUME NEW i \in SlotsFor(x), slots' = [slots EXCEPT ![i] = x],
              pwm' = [pwm EXCEPT ![x] = [new EXCEPT !.active = TRUE]]
       PROVE  PwmInv'
  <2>1. i \in Slots /\ (slots[i] = x \/ (slots[i] = NULL /\ ~InPool(x)))
    BY DEF SlotsFor
  <2>2. Active(x)' /\ \A y \in Pwms : y # x => (Active(y)' <=> Active(y))
    BY <1>2, <1>4, <1>12 DEF Active, TypeOK
  <2>3. slots'[i] = x /\ \A j \in Slots : j # i => slots'[j] = slots[j]
    BY <1>12, <2>1 DEF TypeOK
  <2>4. \A j \in Slots : j # i => slots[j] # x
    BY <2>1, PwmAssumption DEF PoolExact, InPool
  <2>5. \A j, k \in Slots : slots'[j] = slots'[k] /\ slots'[j] # NULL => j = k
    BY <2>3, <2>4 DEF PoolExact
  <2>6. InPool(x)' /\ \A y \in Pwms : y # x => (InPool(y)' <=> InPool(y))
    BY <2>1, <2>3, PwmAssumption DEF InPool
  <2>7. PoolExact'
    BY <2>2, <2>5, <2>6 DEF PoolExact
  <2>8. \A q \in Pins : ActiveOn(q) \subseteq ActiveOn(q)'
    BY <1>9, <1>10, <2>2 DEF ActiveOn
  <2>9. PlainPinsHeld'
    BY <1>2, <2>8 DEF PlainPinsHeld, gpio
  <2>. QED
    BY <1>7, <1>8, <2>7, <2>9
<1>. QED
  BY <1>3, <1>11, <1>12

(* deinit: since a PWM holds one slot, clearing the first clears them all. *)
LEMMA DeinitInv ==
  ASSUME PwmInv, rmw = NoWrite, NEW x \in Pwms, Deinit(x)
  PROVE  PwmInv'
<1>. USE DEF PwmInv, Deinit, timer
<1>1. pwm[x] \in Pwm /\ pwm[x].pin \in Pins
  BY DEF TypeOK, Pwm
<1>2. pwm' \in [Pwms -> Pwm] /\ ~pwm'[x].active /\ pwm'[x].pin = pwm[x].pin
  BY <1>1 DEF TypeOK, Pwm
<1>3. \A y \in Pwms : y # x => pwm'[y] = pwm[y]
  BY DEF TypeOK
<1>4. slots' \in [Slots -> Pwms \cup {NULL}]
  BY DEF TypeOK
<1>5. level' \in [Pins -> BOOLEAN]
  BY <1>1 DEF TypeOK
<1>6. TypeOK'
  BY <1>2, <1>4, <1>5 DEF TypeOK
<1>7. LoadedHeld'
  BY CallBetweenWrites
<1>8. \A i \in Slots : slots'[i] = IF slots[i] = x THEN NULL ELSE slots[i]
  <2>1. \A i \in Slots : \A j \in 0 .. i - 1 : j \in Slots /\ j # i
    BY PwmAssumption DEF Slots
  <2>2. \A i, j \in Slots : slots[i] = x /\ slots[j] = x => i = j
    BY PwmAssumption DEF PoolExact
  <2>. QED
    BY <2>1, <2>2
<1>9. ~Active(x)' /\ \A y \in Pwms : y # x => (Active(y)' <=> Active(y))
  BY <1>2, <1>3 DEF Active
<1>10. ~InPool(x)' /\ \A y \in Pwms : y # x => (InPool(y)' <=> InPool(y))
  BY <1>8, PwmAssumption DEF InPool
<1>11. PoolExact'
  <2>1. \A i, j \in Slots : slots'[i] = slots'[j] /\ slots'[i] # NULL => i = j
    BY <1>8 DEF PoolExact
  <2>. QED
    BY <1>9, <1>10, <2>1 DEF PoolExact
<1>12. PlainPinsHeld'
  <2>. SUFFICES ASSUME NEW p \in Pins, ActiveOn(p)' = {}
                PROVE  (p \in out') = level'[p]
    BY DEF PlainPinsHeld
  <2>1. CASE p = pwm[x].pin
    BY <2>1 DEF TypeOK
  <2>2. CASE p # pwm[x].pin
    <3>1. ActiveOn(p) = {}
      BY <1>3, <1>9, <2>2 DEF ActiveOn
    <3>. QED
      BY <2>2, <3>1 DEF PlainPinsHeld, TypeOK
  <2>. QED
    BY <2>1, <2>2
<1>. QED
  BY <1>6, <1>7, <1>11, <1>12

LEMMA SetFreqInv ==
  ASSUME PwmInv, rmw = NoWrite, NEW x \in Pwms, NEW f \in Freqs, SetFreq(x, f)
  PROVE  PwmInv'
<1>. USE DEF PwmInv, SetFreq, gpio
<1>1. pwm' \in [Pwms -> Pwm] /\ pwm'[x].active = pwm[x].active /\ pwm'[x].pin = pwm[x].pin
  BY DEF TypeOK, Pwm
<1>2. \A y \in Pwms : y # x => pwm'[y] = pwm[y]
  BY DEF TypeOK
<1>3. reload' \in 0 .. Word - 1
  BY ReloadType, PwmAssumption DEF SetReload, TypeOK
<1>4. TypeOK'
  BY <1>1, <1>3 DEF TypeOK
<1>5. LoadedHeld'
  BY CallBetweenWrites
<1>6. \A y \in Pwms : Active(y)' <=> Active(y)
  BY <1>1, <1>2 DEF Active
<1>7. PoolExact'
  BY <1>6 DEF PoolExact, InPool
<1>8. \A q \in Pins : ActiveOn(q)' = ActiveOn(q)
  BY <1>1, <1>2, <1>6 DEF ActiveOn
<1>9. PlainPinsHeld'
  BY <1>8 DEF PlainPinsHeld
<1>. QED
  BY <1>4, <1>5, <1>7, <1>9

LEMMA SetDutyInv ==
  ASSUME PwmInv, rmw = NoWrite, NEW x \in Pwms, NEW d \in Duties, SetDuty(x, d)
  PROVE  PwmInv'
<1>. USE DEF PwmInv, SetDuty, gpio, timer
<1>1. Threshold(d) \in 0 .. Word - 1
  BY ThresholdType, DutyTypes
<1>2. pwm' \in [Pwms -> Pwm] /\ pwm'[x].active = pwm[x].active /\ pwm'[x].pin = pwm[x].pin
  BY <1>1 DEF TypeOK, Pwm
<1>3. \A y \in Pwms : y # x => pwm'[y] = pwm[y]
  BY DEF TypeOK
<1>4. TypeOK'
  BY <1>2 DEF TypeOK
<1>5. LoadedHeld'
  BY CallBetweenWrites
<1>6. \A y \in Pwms : Active(y)' <=> Active(y)
  BY <1>2, <1>3 DEF Active
<1>7. PoolExact'
  BY <1>6 DEF PoolExact, InPool
<1>8. \A q \in Pins : ActiveOn(q)' = ActiveOn(q)
  BY <1>2, <1>3, <1>6 DEF ActiveOn
<1>9. PlainPinsHeld'
  BY <1>8 DEF PlainPinsHeld
<1>. QED
  BY <1>4, <1>5, <1>7, <1>9

-----------------------------------------------------------------------------
(* Pin and bridge writes *)

LEMMA PinModeInv ==
  ASSUME PwmInv, rmw = NoWrite, NEW p \in Pins, NEW v \in BOOLEAN, PinMode(p, v)
  PROVE  PwmInv'
<1>. USE DEF PwmInv, PinMode, timer, pool
<1>1. TypeOK'
  BY DEF TypeOK
<1>2. LoadedHeld'
  BY CallBetweenWrites
<1>3. PoolExact' /\ PlainPinsHeld'
  BY DEF PoolExact, PlainPinsHeld, InPool, Active, ActiveOn
<1>. QED
  BY <1>1, <1>2, <1>3

(* The load: what is loaded is what the register holds. *)
LEMMA WriteLoadInv ==
  ASSUME PwmInv, NEW p \in Pins, NEW v \in BOOLEAN, WriteLoad(p, v)
  PROVE  PwmInv'
<1>. USE DEF PwmInv, WriteLoad, timer, pool
<1>1. rmw' \in [pin : Pins, value : BOOLEAN, loaded : SUBSET Pins] /\ rmw'.loaded = out
  BY DEF TypeOK
<1>2. TypeOK'
  BY <1>1 DEF TypeOK
<1>3. PoolExact' /\ PlainPinsHeld'
  BY DEF PoolExact, PlainPinsHeld, InPool, Active, ActiveOn
<1>4. \A q \in Pins : ActiveOn(q)' = ActiveOn(q)
  BY DEF ActiveOn, Active
<1>5. LoadedHeld'
  BY <1>1, <1>4 DEF LoadedHeld, PlainPinsHeld
<1>. QED
  BY <1>2, <1>3, <1>5

(* The store: the bits of the other plain pins are written back as loaded. *)
LEMMA WriteStoreInv ==
  ASSUME PwmInv, WriteStore
  PROVE  PwmInv'
<1>. USE DEF PwmInv, WriteStore, timer, pool
<1>1. rmw \in [pin : Pins, value : BOOLEAN, loaded : SUBSET Pins]
  BY DEF TypeOK
<1>2. level' \in [Pins -> BOOLEAN] /\ out' \subseteq Pins
  BY <1>1 DEF TypeOK
<1>3. TypeOK'
  BY <1>2 DEF TypeOK
<1>4. PoolExact' /\ LoadedHeld'
  BY DEF PoolExact, LoadedHeld, InPool, Active
<1>5. PlainPinsHeld'
  <2>. SUFFICES ASSUME NEW q \in Pins, ActiveOn(q)' = {}
                PROVE  (q \in out') = level'[q]
    BY DEF PlainPinsHeld
  <2>1. ActiveOn(q) = {}
    BY DEF ActiveOn, Active
  <2>2. (q \in rmw.loaded) = level[q]
    BY <2>1 DEF LoadedHeld
  <2>3. CASE q = rmw.pin
    <3>1. level'[q] = rmw.value
      BY <2>3 DEF TypeOK
    <3>2. (q \in out') = rmw.value
      BY <1>1, <2>3
    <3>. QED
      BY <3>1, <3>2, Zenon
  <2>4. CASE q # rmw.pin
    <3>1. level'[q] = level[q]
      BY <2>4 DEF TypeOK
    <3>2. (q \in out') = (q \in rmw.loaded)
      BY <2>4
    <3>. QED
      BY <2>2, <3>1, <3>2, Zenon
  <2>. QED
    BY <2>3, <2>4
<1>. QED
  BY <1>3, <1>4, <1>5

(* The load of mp_hal_pin_od_low is that of any other write. *)
LEMMA OdLowInv ==
  ASSUME PwmInv, NEW p \in Pins, mp_hal_pin_od_low(p)
  PROVE  PwmInv'
<1>. USE DEF PwmInv, mp_hal_pin_od_low, timer, pool
<1>1. rmw' \in [pin : Pins, value : BOOLEAN, loaded : SUBSET Pins] /\ rmw'.loaded = out
  BY DEF TypeOK
<1>2. TypeOK'
  BY <1>1 DEF TypeOK
<1>3. PoolExact' /\ PlainPinsHeld'
  BY DEF PoolExact, PlainPinsHeld, InPool, Active, ActiveOn
<1>4. \A q \in Pins : ActiveOn(q)' = ActiveOn(q)
  BY DEF ActiveOn, Active
<1>5. LoadedHeld'
  BY <1>1, <1>4 DEF LoadedHeld, PlainPinsHeld
<1>. QED
  BY <1>2, <1>3, <1>5

(* The output driver of a line is switched between writes. *)
LEMMA OdSwitchInv ==
  ASSUME PwmInv, OdDrive \/ (rmw = NoWrite /\ \E p \in Pins : mp_hal_pin_od_high(p))
  PROVE  PwmInv'
<1>1. /\ rmw = NoWrite /\ outen' \subseteq Pins /\ od' \subseteq Pins
      /\ drive' \in Pins \cup {NULL}
      /\ UNCHANGED <<timer, pool, out, rmw, level>>
  BY DEF OdDrive, mp_hal_pin_od_high, PwmInv, TypeOK
<1>. USE <1>1 DEF PwmInv, timer, pool
<1>2. TypeOK'
  BY DEF TypeOK
<1>3. LoadedHeld'
  BY CallBetweenWrites
<1>4. PoolExact' /\ PlainPinsHeld'
  BY DEF PoolExact, PlainPinsHeld, InPool, Active, ActiveOn
<1>. QED
  BY <1>2, <1>3, <1>4

LEMMA BridgeWriteInv ==
  ASSUME PwmInv, rmw = NoWrite, NEW S \in SUBSET Pins, BridgeWrite(S)
  PROVE  PwmInv'
<1>. USE DEF PwmInv, BridgeWrite, timer, pool
<1>1. TypeOK'
  BY DEF TypeOK
<1>2. LoadedHeld'
  BY CallBetweenWrites
<1>3. PoolExact'
  BY DEF PoolExact, InPool, Active
<1>4. PlainPinsHeld'
  BY DEF PlainPinsHeld
<1>. QED
  BY <1>1, <1>2, <1>3, <1>4

-----------------------------------------------------------------------------
(* The handler *)

(* The handler drives exactly the pins that have an active PWM: the pool   *)
(* holds the active PWMs and no others.                                    *)
LEMMA DrivenPins ==
  ASSUME PwmInv, NEW p \in Pins
  PROVE  ActiveOn(p) = {} => DrivingSlots(p) = {}
<1>. SUFFICES ASSUME NEW i \in Slots, slots[i] # NULL, pwm[slots[i]].pin = p
              PROVE  slots[i] \in ActiveOn(p)
  BY DEF DrivingSlots
<1>1. slots[i] \in Pwms
  BY DEF PwmInv, TypeOK
<1>2. Active(slots[i])
  BY <1>1 DEF PwmInv, PoolExact, InPool
<1>. QED
  BY <1>1, <1>2 DEF ActiveOn

LEMMA TickInv ==
  ASSUME PwmInv, Tick
  PROVE  PwmInv'
<1>. USE DEF PwmInv, Tick, pool
<1>1. counter' \in 0 .. Resolution - 1 /\ (counter' = 0 \/ counter' = counter + 1)
  BY PwmAssumption DEF TypeOK, NextCount
<1>2. out' \subseteq Pins
  OBVIOUS
<1>3. level' \in [Pins -> BOOLEAN]
  <2>1. ASSUME NEW p \in Pins
        PROVE  (IF DrivingSlots(p) = {} THEN level[p] ELSE p \in out') \in BOOLEAN
    <3>1. level[p] \in BOOLEAN
      BY DEF TypeOK
    <3>2. (p \in out') \in BOOLEAN
      OBVIOUS
    <3>. QED
      BY <3>1, <3>2, Zenon
  <2>2. level' = [p \in Pins |-> IF DrivingSlots(p) = {} THEN level[p] ELSE p \in out']
    OBVIOUS
  <2>. QED
    BY <2>1, <2>2, Zenon
<1>7. TypeOK'
  BY <1>1, <1>2, <1>3 DEF TypeOK
<1>9. PoolExact'
  BY DEF PoolExact, InPool, Active
<1>10. \A p \in Pins : ActiveOn(p)' = ActiveOn(p)
  BY DEF ActiveOn, Active
<1>11. ASSUME NEW p \in Pins, ActiveOn(p) = {}
       PROVE  (p \in out' <=> p \in out) /\ level'[p] = level[p]
  <2>1. DrivingSlots(p) = {}
    BY <1>11, DrivenPins
  <2>2. LevelAfterTick(p) <=> p \in out
    BY <2>1 DEF LevelAfterTick
  <2>3. p \in out' <=> p \in out
    <3>1. p \in out' <=> p \in {q \in Pins : LevelAfterTick(q)}
      OBVIOUS
    <3>. QED
      BY <2>2, <3>1, Zenon
  <2>4. level'[p] = level[p]
    BY <2>1
  <2>. QED
    BY <2>3, <2>4, Zenon
<1>12. PlainPinsHeld'
  BY <1>10, <1>11 DEF PlainPinsHeld
<1>13. LoadedHeld'
  BY <1>10, <1>11 DEF LoadedHeld
<1>. QED
  BY <1>7, <1>9, <1>12, <1>13

-----------------------------------------------------------------------------
(* Open-drain lines *)

(* In the middle of a write, what it has loaded and will store leaves the  *)
(* lines as they are, and what mp_hal_pin_od_low is about to make an       *)
(* output is low.                                                          *)
LineInv ==
  /\ OpenDrain
  /\ rmw # NoWrite => /\ \A p \in od : p \in rmw.loaded <=> p \in out
                      /\ rmw.value => rmw.pin \notin od
                      /\ drive # NULL => rmw.pin = drive /\ ~rmw.value
  /\ rmw = NoWrite /\ drive # NULL /\ ActiveOn(drive) = {} => ~level[drive]

LEMMA InitLines == Init => LineInv
BY DEF Init, LineInv, OpenDrain

(* A call of machine.PWM makes an output only of a pin that it takes from  *)
(* the lines.                                                              *)
LEMMA PwmCallLines ==
  ASSUME LineInv, PwmCall
  PROVE  LineInv'
<1>1. PICK x \in Pwms :
        \/ \E p \in Pins : MakeNew(x, p)
        \/ Collect(x)
        \/ \E f \in Freqs \cup {Absent}, d \in Duties \cup {Absent} : PwmInit(x, f, d)
        \/ Deinit(x)
        \/ \E f \in Freqs : SetFreq(x, f)
        \/ \E d \in Duties : SetDuty(x, d)
  BY DEF PwmCall
<1>2. /\ UNCHANGED <<out, rmw, drive>>
      /\ \/ UNCHANGED <<outen, od>>
         \/ \E p \in Pins : outen' = outen \cup {p} /\ od' = od \ {p}
  <2>1. CASE \E p \in Pins : MakeNew(x, p)
    BY <2>1 DEF MakeNew
  <2>2. CASE Deinit(x)
    BY <2>2 DEF Deinit
  <2>3. CASE \/ Collect(x)
             \/ \E f \in Freqs \cup {Absent}, d \in Duties \cup {Absent} : PwmInit(x, f, d)
             \/ \E f \in Freqs : SetFreq(x, f)
             \/ \E d \in Duties : SetDuty(x, d)
    <3>1. UNCHANGED gpio
      BY <2>3 DEF Collect, PwmInit, SetFreq, SetDuty
    <3>. QED BY <3>1 DEF gpio
  <2>. QED
    BY <1>1, <2>1, <2>2, <2>3
<1>3. OpenDrain'
  BY <1>2 DEF LineInv, OpenDrain
<1>4. Idle
  BY DEF PwmCall
<1>. QED
  BY <1>2, <1>3, <1>4 DEF LineInv, Idle

LEMMA PinCallLines ==
  ASSUME PwmInv, LineInv, PinCall
  PROVE  LineInv'
<1>. USE DEF LineInv
<1>2. CASE OdDrive
  <2>1. ASSUME ActiveOn(drive) = {}
        PROVE  drive \notin out
    <3>1. (drive \in out) = level[drive] /\ ~level[drive]
      BY <1>2, <2>1 DEF OdDrive, PwmInv, PlainPinsHeld, TypeOK
    <3>. QED BY <3>1, Zenon
  <2>2. OpenDrain'
    BY <1>2, <2>1 DEF OdDrive, OpenDrain
  <2>. QED
    BY <1>2, <2>2 DEF OdDrive
<1>3. ASSUME Idle, NEW p \in Pins, NEW v \in BOOLEAN, WriteLoad(p, v)
      PROVE  LineInv'
  <2>1. /\ rmw' = [pin |-> p, value |-> v, loaded |-> out] /\ od' = od \ {p}
        /\ UNCHANGED <<out, outen, drive>>
    BY <1>3 DEF WriteLoad
  <2>2. OpenDrain' /\ drive' = NULL
    BY <1>3, <2>1 DEF OpenDrain, Idle
  <2>3. rmw' # NoWrite
    BY <2>1, PwmAssumption DEF NoWrite
  <2>. QED
    BY <2>1, <2>2, <2>3
<1>4. ASSUME Idle, NEW p \in Pins, NEW v \in BOOLEAN,
             PinMode(p, v) \/ mp_hal_pin_od_high(p)
      PROVE  LineInv'
  <2>1. OpenDrain'
    BY <1>4 DEF PinMode, mp_hal_pin_od_high, OpenDrain
  <2>. QED
    BY <1>4, <2>1 DEF PinMode, mp_hal_pin_od_high, Idle
<1>5. ASSUME Idle, NEW p \in Pins, mp_hal_pin_od_low(p)
      PROVE  LineInv'
  <2>1. /\ rmw' = [pin |-> p, value |-> FALSE, loaded |-> out] /\ drive' = p
        /\ UNCHANGED <<out, outen, od>>
    BY <1>5 DEF mp_hal_pin_od_low
  <2>2. OpenDrain'
    BY <2>1 DEF OpenDrain
  <2>3. rmw' # NoWrite
    BY <2>1, PwmAssumption DEF NoWrite
  <2>. QED
    BY <2>1, <2>2, <2>3
<1>. QED
  BY <1>2, <1>3, <1>4, <1>5 DEF PinCall, PinIoctl

(* The store leaves the lines as it loaded them, or low. *)
LEMMA WriteStoreLines ==
  ASSUME PwmInv, LineInv, WriteStore
  PROVE  LineInv'
<1>. USE DEF LineInv
<1>1. /\ out' = IF rmw.value THEN rmw.loaded \cup {rmw.pin} ELSE rmw.loaded \ {rmw.pin}
      /\ rmw # NoWrite /\ rmw' = NoWrite /\ UNCHANGED <<outen, drive, od, pwm, made>>
      /\ level' = [level EXCEPT ![rmw.pin] = rmw.value]
  BY DEF WriteStore, pool
<1>2. OpenDrain'
  BY <1>1 DEF OpenDrain
<1>3. ASSUME drive # NULL
      PROVE  ~level'[drive]
  <2>1. level'[drive] = rmw.value /\ ~rmw.value
    BY <1>1, <1>3 DEF PwmInv, TypeOK
  <2>. QED BY <2>1, Zenon
<1>. QED
  BY <1>1, <1>2, <1>3

LEMMA BridgeCallLines ==
  ASSUME LineInv, BridgeCall
  PROVE  LineInv'
BY DEF LineInv, BridgeCall, BridgeWrite, OpenDrain, Idle

(* The handler takes the pins it drives from the lines, and leaves the     *)
(* level of the others.                                                    *)
LEMMA TickLines ==
  ASSUME PwmInv, LineInv, Tick
  PROVE  LineInv'
<1>1. /\ out' = {p \in Pins : LevelAfterTick(p)}
      /\ od' = {p \in od : DrivingSlots(p) = {}}
      /\ level' = [p \in Pins |-> IF DrivingSlots(p) = {} THEN level[p] ELSE p \in out']
      /\ UNCHANGED <<pool, outen, rmw, drive>>
  BY DEF Tick
<1>2. ASSUME NEW p \in od'
      PROVE  p \in od /\ (p \in out' <=> p \in out)
  <2>1. p \in od /\ p \in Pins /\ DrivingSlots(p) = {}
    BY <1>1, <1>2 DEF PwmInv, TypeOK
  <2>2. LevelAfterTick(p) <=> p \in out
    BY <2>1 DEF LevelAfterTick
  <2>. QED
    BY <1>1, <2>1, <2>2
<1>3. OpenDrain'
  BY <1>1, <1>2 DEF LineInv, OpenDrain
<1>4. ASSUME drive # NULL, ActiveOn(drive) = {}
      PROVE  level'[drive] = level[drive]
  <2>1. drive \in Pins /\ DrivingSlots(drive) = {}
    BY <1>4, DrivenPins DEF PwmInv, TypeOK
  <2>. QED
    BY <1>1, <2>1
<1>5. ActiveOn(drive)' = ActiveOn(drive)
  BY <1>1 DEF ActiveOn, Active, pool
<1>6. rmw = NoWrite /\ drive # NULL /\ ActiveOn(drive)' = {} => ~level'[drive]
  BY <1>4, <1>5, Zenon DEF LineInv
<1>. QED
  BY <1>1, <1>2, <1>3, <1>6 DEF LineInv

-----------------------------------------------------------------------------
(* Duty cycles *)

ThresholdInv == \A x \in Pwms : pwm[x].threshold = Threshold(pwm[x].duty)

(* A write that no tick has hit will put the other pins back to what they  *)
(* are.                                                                    *)
LateInv ==
  /\ late \in Nat
  /\ hit => rmw # NoWrite
  /\ rmw # NoWrite /\ ~hit => rmw.loaded = out

(* A steady PWM should have been high, of the ticks of this period, in     *)
(* those below its threshold; each write that a tick has hit may have      *)
(* made it so, or low, in one more.                                        *)
HighSoFar(x) == IF counter < pwm[x].threshold THEN counter + 1 ELSE pwm[x].threshold

SteadyInv ==
  /\ steady \subseteq Pwms
  /\ \A x \in steady :
       /\ ActiveOn(pwm[x].pin) = {x}
       /\ highs[x] \in Nat /\ highs[x] <= HighSoFar(x) + late
       /\ lows[x] \in Nat /\ lows[x] <= counter + 1 - HighSoFar(x) + late

WaveInv == ThresholdInv /\ LateInv /\ SteadyInv

LEMMA InitWave == WaveInit => WaveInv
<1>. SUFFICES ASSUME WaveInit PROVE WaveInv
  OBVIOUS
<1>1. LateInv /\ SteadyInv
  BY DEF WaveInit, Init, LateInv, SteadyInv
<1>2. ThresholdInv
  BY DEF WaveInit, Init, ThresholdInv, FreshPwm
<1>. QED
  BY <1>1, <1>2 DEF WaveInv

(* The calls of machine.PWM keep threshold and duty of a PWM together.     *)
LEMMA PwmCallThreshold ==
  ASSUME PwmInv, ThresholdInv, PwmCall
  PROVE  ThresholdInv' /\ UNCHANGED <<counter, out, rmw>>
<1>. USE DEF ThresholdInv
<1>1. PICK y \in Pwms :
        \/ \E p \in Pins : MakeNew(y, p)
        \/ Collect(y)
        \/ \E f \in Freqs \cup {Absent}, d \in Duties \cup {Absent} : PwmInit(y, f, d)
        \/ Deinit(y)
        \/ \E f \in Freqs : SetFreq(y, f)
        \/ \E d \in Duties : SetDuty(y, d)
  BY DEF PwmCall
<1>2. pwm \in [Pwms -> Pwm] /\ pwm[y] \in Pwm
  BY DEF PwmInv, TypeOK
<1>3. ASSUME NEW p \in Pins, MakeNew(y, p)
      PROVE  ThresholdInv' /\ UNCHANGED <<counter, out, rmw>>
  BY <1>2, <1>3 DEF MakeNew, FreshPwm, timer
<1>4. CASE Collect(y)
  BY <1>4 DEF Collect, timer, gpio
<1>5. ASSUME NEW f \in Freqs \cup {Absent}, NEW d \in Duties \cup {Absent}, PwmInit(y, f, d)
      PROVE  ThresholdInv' /\ UNCHANGED <<counter, out, rmw>>
  <2>. DEFINE new == [pwm[y] EXCEPT !.freq = IF f = Absent THEN @ ELSE f,
                                    !.duty = IF d = Absent THEN @ ELSE d,
                                    !.threshold = IF d = Absent THEN @ ELSE Threshold(d)]
  <2>1. /\ pwm' = [pwm EXCEPT ![y] = new] \/ pwm' = [pwm EXCEPT ![y] = [new EXCEPT !.active = TRUE]]
        /\ UNCHANGED <<counter, out, rmw>>
    BY <1>5 DEF PwmInit, gpio
  <2>2. new.threshold = Threshold(new.duty)
    BY <1>2 DEF Pwm
  <2>3. /\ [new EXCEPT !.active = TRUE].duty = new.duty
        /\ [new EXCEPT !.active = TRUE].threshold = new.threshold
    BY <1>2 DEF Pwm
  <2>. HIDE DEF new
  <2>. QED BY <1>2, <2>1, <2>2, <2>3
<1>6. CASE Deinit(y)
  BY <1>2, <1>6 DEF Deinit, timer, Pwm
<1>7. ASSUME NEW f \in Freqs, SetFreq(y, f)
      PROVE  ThresholdInv' /\ UNCHANGED <<counter, out, rmw>>
  BY <1>2, <1>7 DEF SetFreq, gpio, Pwm
<1>8. ASSUME NEW d \in Duties, SetDuty(y, d)
      PROVE  ThresholdInv' /\ UNCHANGED <<counter, out, rmw>>
  BY <1>2, <1>8 DEF SetDuty, timer, gpio, Pwm
<1>. QED
  BY <1>1, <1>3, <1>4, <1>5, <1>6, <1>7, <1>8

(* The calls that do not store: the PWMs that stay steady are those they   *)
(* leave as they were, and a load comes after the store of the one before. *)
LEMMA CallWave ==
  ASSUME PwmInv, WaveInv, WaveCall
  PROVE  WaveInv'
<1>. USE DEF WaveInv
<1>1. /\ steady' = {x \in steady : Same(x)}
      /\ UNCHANGED <<highs, lows, hit, late>>
  BY DEF WaveCall
<1>2. /\ ThresholdInv' /\ UNCHANGED <<counter, out>>
      /\ rmw' # rmw => rmw = NoWrite /\ (rmw' # NoWrite => rmw'.loaded = out)
  <2>1. CASE PwmCall
    BY <2>1, PwmCallThreshold
  <2>2. CASE PinCall
    <3>1. /\ UNCHANGED <<timer, pool, out>>
          /\ \/ UNCHANGED rmw
             \/ Idle /\ \E p \in Pins, v \in BOOLEAN :
                          rmw' = [pin |-> p, value |-> v, loaded |-> out]
      BY <2>2 DEF PinCall, OdDrive, WriteLoad, PinMode, PinIoctl, mp_hal_pin_od_low,
                  mp_hal_pin_od_high
    <3>. QED
      BY <3>1 DEF ThresholdInv, timer, pool, Idle
  <2>. QED
    BY <2>1, <2>2 DEF WaveCall
<1>3. LateInv'
  BY <1>1, <1>2 DEF LateInv
<1>4. SteadyInv'
  BY <1>1, <1>2 DEF SteadyInv, Same, Sole, HighSoFar
<1>. QED
  BY <1>2, <1>3, <1>4

LEMMA BridgeWave ==
  ASSUME WaveInv, WaveBridge
  PROVE  WaveInv'
BY DEF WaveInv, WaveBridge, BridgeCall, BridgeWrite, Idle, pool, ThresholdInv, LateInv, SteadyInv

(* A store changes other pins only if a tick has hit it. *)
LEMMA StoreWave ==
  ASSUME PwmInv, WaveInv, WaveStore
  PROVE  WaveInv'
<1>. USE DEF WaveInv
<1>1. /\ rmw # NoWrite /\ rmw' = NoWrite /\ UNCHANGED <<counter, pwm, made>>
      /\ out' = IF rmw.value THEN rmw.loaded \cup {rmw.pin} ELSE rmw.loaded \ {rmw.pin}
      /\ steady' = steady \ ActiveOn(rmw.pin) /\ hit' = FALSE /\ late' = late + One(hit)
      /\ highs' = [x \in Pwms |-> highs[x] + One(x \in steady' /\ pwm[x].pin \in out' \ out)]
      /\ lows'  = [x \in Pwms |-> lows[x] + One(x \in steady' /\ pwm[x].pin \in out \ out')]
  BY DEF WaveStore, WriteStore, timer, pool
<1>2. ThresholdInv'
  BY <1>1 DEF ThresholdInv
<1>3. late \in Nat /\ One(hit) \in Nat /\ LateInv'
  BY <1>1 DEF LateInv, One
<1>4. ASSUME NEW x \in steady'
      PROVE  /\ x \in steady /\ ActiveOn(pwm[x].pin)' = ActiveOn(pwm[x].pin)
             /\ highs'[x] \in {highs[x], highs[x] + One(hit)}
             /\ lows'[x] \in {lows[x], lows[x] + One(hit)}
  <2>1. x \in steady /\ x \in Pwms /\ pwm[x].pin # rmw.pin
    BY <1>1, <1>4 DEF SteadyInv
  <2>2. ActiveOn(pwm[x].pin)' = ActiveOn(pwm[x].pin)
    BY <1>1 DEF ActiveOn, Active
  <2>3. CASE hit
    <3>1. \E m, n \in {0, 1} : highs'[x] = highs[x] + m /\ lows'[x] = lows[x] + n
      BY <1>1, <2>1 DEF One
    <3>2. highs[x] \in Nat /\ lows[x] \in Nat /\ One(hit) = 1
      BY <2>1, <2>3 DEF SteadyInv, One
    <3>. QED BY <2>1, <2>2, <3>1, <3>2
  <2>4. CASE ~hit
    <3>1. pwm[x].pin \in out' <=> pwm[x].pin \in out
      BY <1>1, <2>1, <2>4 DEF LateInv
    <3>2. highs'[x] = highs[x] + 0 /\ lows'[x] = lows[x] + 0
      BY <1>1, <2>1, <3>1 DEF One
    <3>3. highs[x] \in Nat /\ lows[x] \in Nat
      BY <2>1 DEF SteadyInv
    <3>. QED BY <2>1, <2>2, <3>2, <3>3
  <2>. QED BY <2>3, <2>4
<1>5. SteadyInv'
  <2>. SUFFICES ASSUME NEW x \in steady'
                PROVE  /\ x \in Pwms /\ ActiveOn(pwm[x].pin)' = {x}
                       /\ highs'[x] \in Nat /\ highs'[x] <= HighSoFar(x) + late'
                       /\ lows'[x] \in Nat /\ lows'[x] <= counter + 1 - HighSoFar(x) + late'
    BY <1>1 DEF SteadyInv, HighSoFar
  <2>1. /\ x \in Pwms /\ ActiveOn(pwm[x].pin) = {x}
        /\ highs[x] \in Nat /\ highs[x] <= HighSoFar(x) + late
        /\ lows[x] \in Nat /\ lows[x] <= counter + 1 - HighSoFar(x) + late
    BY <1>4 DEF SteadyInv
  <2>2. HighSoFar(x) \in Int /\ counter \in Int
    BY <2>1, PwmAssumption DEF HighSoFar, PwmInv, TypeOK, Pwm
  <2>3. ActiveOn(pwm[x].pin)' = {x} /\ late' = late + One(hit)
    BY <1>1, <1>4, <2>1
  <2>4. /\ highs'[x] \in {highs[x], highs[x] + One(hit)}
        /\ lows'[x] \in {lows[x], lows[x] + One(hit)}
    BY <1>4
  <2>. QED BY <1>3, <2>1, <2>2, <2>3, <2>4
<1>. QED
  BY <1>2, <1>3, <1>5

(* Of the PWMs on a pin only the one that is alone decides its level. *)
LEMMA SoleDecides ==
  ASSUME PwmInv, NEW x \in Pwms, ActiveOn(pwm[x].pin) = {x}
  PROVE  LevelAfterTick(pwm[x].pin) <=> High(x)
<1>. DEFINE p == pwm[x].pin
<1>1. Active(x)
  BY DEF ActiveOn
<1>2. PICK i \in Slots : slots[i] = x
  BY <1>1 DEF PwmInv, PoolExact, InPool
<1>3. DrivingSlots(p) = {i}
  <2>1. i \in DrivingSlots(p)
    BY <1>1, <1>2, PwmAssumption DEF DrivingSlots, Active
  <2>2. ASSUME NEW j \in DrivingSlots(p)
        PROVE  j = i
    <3>1. j \in Slots /\ slots[j] # NULL /\ pwm[slots[j]].active /\ pwm[slots[j]].pin = p
      BY <2>2 DEF DrivingSlots
    <3>2. slots[j] \in Pwms
      BY <3>1 DEF PwmInv, TypeOK
    <3>3. Active(slots[j])
      BY <3>1, <3>2 DEF PwmInv, PoolExact, InPool
    <3>4. slots[j] = x
      BY <3>1, <3>2, <3>3 DEF ActiveOn
    <3>. QED BY <1>2, <3>1, <3>4 DEF PwmInv, PoolExact
  <2>. QED BY <2>1, <2>2
<1>4. \A j \in Slots : Decides(j, p) <=> j = i
  BY <1>3 DEF Decides, Slots
<1>. QED
  BY <1>2, <1>3, <1>4 DEF LevelAfterTick

LEMMA TickWave ==
  ASSUME PwmInv, WaveInv, WaveTick
  PROVE  WaveInv'
<1>. USE DEF WaveInv
<1>1. /\ counter' = NextCount /\ UNCHANGED <<pwm, made, rmw>>
      /\ out' = {p \in Pins : LevelAfterTick(p)}
      /\ steady' = IF counter' = 0 THEN Sole ELSE steady
      /\ hit' = (rmw # NoWrite) /\ late' = SoFar(late)
  BY DEF WaveTick, Tick, pool
<1>2. counter \in Nat /\ (counter' = 0 \/ (counter' = counter + 1 /\ counter' # 0))
  BY <1>1, PwmAssumption DEF NextCount, PwmInv, TypeOK
<1>3. ThresholdInv'
  BY <1>1 DEF ThresholdInv
<1>4. late \in Nat /\ late' \in Nat /\ LateInv'
  BY <1>1 DEF LateInv, SoFar
<1>5. ASSUME NEW x \in steady'
      PROVE  /\ x \in Pwms /\ ActiveOn(pwm[x].pin)' = {x}
             /\ highs'[x] \in Nat /\ highs'[x] <= HighSoFar(x)' + late'
             /\ lows'[x] \in Nat /\ lows'[x] <= counter' + 1 - HighSoFar(x)' + late'
  <2>1. x \in Pwms /\ ActiveOn(pwm[x].pin) = {x}
    BY <1>1, <1>5 DEF Sole, SteadyInv
  <2>2. ActiveOn(pwm[x].pin)' = {x}
    BY <1>1, <2>1 DEF ActiveOn, Active
  <2>3. pwm[x].pin \in Pins /\ pwm[x].threshold \in Nat
    BY <2>1, PwmAssumption DEF PwmInv, TypeOK, Pwm
  <2>4. pwm[x].pin \in out' <=> counter' < pwm[x].threshold
    BY <1>1, <2>1, <2>3, SoleDecides DEF High
  <2>5. /\ highs'[x] = SoFar(highs[x]) + One(pwm[x].pin \in out')
        /\ lows'[x] = SoFar(lows[x]) + One(pwm[x].pin \notin out')
    BY <1>5, <2>1 DEF WaveTick
  <2>6. CASE counter' = 0
    <3>1. /\ highs'[x] = 0 + (IF counter' < pwm[x].threshold THEN 1 ELSE 0)
          /\ lows'[x] = 0 + (IF counter' < pwm[x].threshold THEN 0 ELSE 1)
      BY <2>4, <2>5, <2>6 DEF SoFar, One
    <3>. QED BY <1>1, <1>4, <2>1, <2>2, <2>3, <2>6, <3>1 DEF HighSoFar
  <2>7. CASE counter' = counter + 1 /\ counter' # 0
    <3>1. /\ highs'[x] = highs[x] + (IF counter' < pwm[x].threshold THEN 1 ELSE 0)
          /\ lows'[x] = lows[x] + (IF counter' < pwm[x].threshold THEN 0 ELSE 1)
      BY <2>4, <2>5, <2>7 DEF SoFar, One
    <3>2. /\ highs[x] \in Nat /\ highs[x] <= HighSoFar(x) + late
          /\ lows[x] \in Nat /\ lows[x] <= counter + 1 - HighSoFar(x) + late
      BY <1>1, <1>5, <2>7 DEF SteadyInv
    <3>3. late' = late
      BY <1>1, <2>7 DEF SoFar
    <3>. QED BY <1>1, <1>2, <1>4, <2>1, <2>2, <2>3, <2>7, <3>1, <3>2, <3>3 DEF HighSoFar
  <2>. QED BY <1>2, <2>6, <2>7
<1>. QED
  BY <1>3, <1>4, <1>5 DEF SteadyInv

LEMMA MulMono ==
  ASSUME NEW a \in Int, NEW b \in Int, NEW n \in Nat, a <= b
  PROVE  a * n <= b * n
OBVIOUS

(* A duty within the range is not cut to 32 bits by the product, and its   *)
(* threshold is its share of the ticks, rounded down.                      *)
LEMMA ThresholdOfDuty ==
  ASSUME NEW d \in 0 .. DutyRange
  PROVE  /\ Threshold(d) \in 0 .. Resolution
         /\ Threshold(d) * DutyRange <= d * Resolution
         /\ d * Resolution < (Threshold(d) + 1) * DutyRange
<1>. DEFINE n == d * Resolution
<1>1. /\ DutyRange \in Nat \ {0} /\ Resolution \in Nat \ {0} /\ Word \in Nat \ {0}
      /\ DutyRange * Resolution < Word
  BY PwmAssumption
<1>2. n \in Nat /\ n <= DutyRange * Resolution
  BY <1>1, MulMono
<1>3. n % Word = n
  <2>1. n \in 0 .. Word - 1
    <3>. HIDE DEF n
    <3>. QED BY <1>1, <1>2
  <2>. HIDE DEF n
  <2>. QED BY <1>1, <2>1
<1>4. Threshold(d) = n \div DutyRange
  BY <1>3 DEF Threshold
<1>. HIDE DEF n
<1>5. PICK q \in Nat : q = n \div DutyRange /\ q * DutyRange <= n /\ n < (q + 1) * DutyRange
  BY <1>1, <1>2
<1>6. q <= Resolution
  <2>1. q * DutyRange <= Resolution * DutyRange
    BY <1>1, <1>2, <1>5
  <2>. QED BY <1>1, <2>1
<1>. QED
  BY <1>1, <1>4, <1>5, <1>6 DEF n

LEMMA WaveAccurate ==
  ASSUME PwmInv, WaveInv
  PROVE  DutyAccurate
<1>. SUFFICES ASSUME NEW x \in steady, counter = Resolution - 1, pwm[x].duty <= DutyRange
              PROVE  /\ (highs[x] - late) * DutyRange <= pwm[x].duty * Resolution
                     /\ pwm[x].duty * Resolution
                          < (Resolution - (lows[x] - late) + 1) * DutyRange
  BY DEF DutyAccurate
<1>. DEFINE th == Threshold(pwm[x].duty)
            hi == highs[x] - late
            lo == Resolution - (lows[x] - late) + 1
<1>1. x \in Pwms /\ pwm[x] \in Pwm /\ DutyRange \in Nat /\ Resolution \in Nat
  BY PwmAssumption DEF PwmInv, WaveInv, SteadyInv, TypeOK
<1>2. pwm[x].duty \in 0 .. DutyRange
  <2>1. pwm[x].duty \in Nat
    BY <1>1, DutyTypes DEF Pwm
  <2>. QED BY <1>1, <2>1
<1>3. /\ th \in 0 .. Resolution
      /\ th * DutyRange <= pwm[x].duty * Resolution
      /\ pwm[x].duty * Resolution < (th + 1) * DutyRange
  BY <1>2, ThresholdOfDuty
<1>4. hi \in Int /\ lo \in Int /\ hi <= th /\ th + 1 <= lo
  <2>1. /\ highs[x] \in Nat /\ highs[x] <= HighSoFar(x) + late
        /\ lows[x] \in Nat /\ lows[x] <= counter + 1 - HighSoFar(x) + late
        /\ late \in Nat /\ pwm[x].threshold = th
    BY <1>1 DEF WaveInv, SteadyInv, LateInv, ThresholdInv
  <2>. HIDE DEF th
  <2>2. HighSoFar(x) = th
    BY <1>1, <1>3, <2>1 DEF HighSoFar
  <2>. QED BY <1>1, <1>3, <2>1, <2>2
<1>. HIDE DEF th, hi, lo
<1>5. hi * DutyRange <= th * DutyRange /\ (th + 1) * DutyRange <= lo * DutyRange
  BY <1>1, <1>3, <1>4, MulMono
<1>6. /\ hi * DutyRange \in Int /\ th * DutyRange \in Int /\ (th + 1) * DutyRange \in Int
      /\ lo * DutyRange \in Int /\ pwm[x].duty * Resolution \in Int
  BY <1>1, <1>2, <1>3, <1>4
<1>. QED
  BY <1>3, <1>5, <1>6 DEF hi, lo

-----------------------------------------------------------------------------
(* Theorems *)

LEMMA NextInv == PwmInv /\ [Next]_vars => PwmInv'
<1>. SUFFICES ASSUME PwmInv, [Next]_vars PROVE PwmInv'
  OBVIOUS
<1>1. CASE PwmCall
  <2>1. PICK x \in Pwms :
          \/ \E p \in Pins : MakeNew(x, p)
          \/ Collect(x)
          \/ \E f \in Freqs \cup {Absent}, d \in Duties \cup {Absent} : PwmInit(x, f, d)
          \/ Deinit(x)
          \/ \E f \in Freqs : SetFreq(x, f)
          \/ \E d \in Duties : SetDuty(x, d)
    BY <1>1 DEF PwmCall
  <2>2. rmw = NoWrite
    BY <1>1 DEF PwmCall, Idle
  <2>. QED
    BY <2>1, <2>2, MakeNewInv, CollectInv, PwmInitInv, DeinitInv, SetFreqInv, SetDutyInv
<1>2. CASE PinCall
  <2>1. CASE OdDrive
    BY <2>1, OdSwitchInv
  <2>2. CASE Idle /\ \E p \in Pins, v \in BOOLEAN :
                       WriteLoad(p, v) \/ PinMode(p, v) \/ PinIoctl(p, v)
    BY <2>2, WriteLoadInv, PinModeInv DEF Idle, PinIoctl
  <2>3. CASE Idle /\ \E p \in Pins : mp_hal_pin_od_low(p) \/ mp_hal_pin_od_high(p)
    BY <2>3, OdLowInv, OdSwitchInv DEF Idle
  <2>. QED
    BY <1>2, <2>1, <2>2, <2>3 DEF PinCall
<1>5. CASE BridgeCall
  BY <1>5, BridgeWriteInv DEF BridgeCall, Idle
<1>6. CASE WriteStore
  BY <1>6, WriteStoreInv
<1>3. CASE Tick
  BY <1>3, TickInv
<1>4. CASE UNCHANGED vars
  <2>1. TypeOK'
    BY <1>4 DEF PwmInv, TypeOK, vars, timer, pool, gpio
  <2>2. PoolExact' /\ PlainPinsHeld' /\ LoadedHeld'
    BY <1>4 DEF PwmInv, PoolExact, PlainPinsHeld, LoadedHeld, InPool, Active,
                ActiveOn, vars, timer, pool, gpio
  <2>. QED
    BY <2>1, <2>2 DEF PwmInv
<1>. QED
  BY <1>1, <1>2, <1>3, <1>4, <1>5, <1>6 DEF Next

(* The inductive invariant holds in every reachable state of pwm.c.        *)
THEOREM PwmInvariant == Spec => []PwmInv
<1>. QED
  BY InitInv, NextInv, PTL DEF Spec

(* Thresholds, reload values and counters stay machine words, whatever     *)
(* frequencies and duties a script asks for.                               *)
THEOREM PwmTypeCorrect == Spec => []TypeOK
<1>1. PwmInv => TypeOK
  BY DEF PwmInv
<1>. QED
  BY <1>1, PwmInvariant, PTL

(* The pool of pwm.c holds each active PWM once and nothing else.          *)
THEOREM PoolHoldsActive == Spec => []PoolExact
<1>1. PwmInv => PoolExact
  BY DEF PwmInv
<1>. QED
  BY <1>1, PwmInvariant, PTL

(* No write of pin.c, bridge.c or pwm.c's handler, however they interleave *)
(* on DATAOUT, changes a pin that has no PWM and is not being written.     *)
THEOREM PlainPinsKeepLevel == Spec => []PlainPinsHeld
<1>1. PwmInv => PlainPinsHeld
  BY DEF PwmInv
<1>. QED
  BY <1>1, PwmInvariant, PTL

(* Nothing that writes DATAOUT drives an open-drain line of SoftI2C high.  *)
THEOREM LinesNeverHigh == Spec => []OpenDrain
<1>1. Init => LineInv
  BY InitLines
<1>2. PwmInv /\ LineInv /\ [Next]_vars => LineInv'
  <2>1. ASSUME LineInv, UNCHANGED vars PROVE LineInv'
    BY <2>1 DEF LineInv, OpenDrain, ActiveOn, Active, vars, gpio, pool
  <2>. QED
    BY <2>1, PwmCallLines, PinCallLines, WriteStoreLines, BridgeCallLines, TickLines DEF Next
<1>3. LineInv => OpenDrain
  BY DEF LineInv
<1>. QED
  BY <1>1, <1>2, <1>3, PwmInvariant, PTL DEF Spec

(* Over a period in which nobody touches the PWM or its pin, the pin is    *)
(* high for its share of the ticks, up to one and one more for each write  *)
(* to another pin whose load and store a tick has come between, whatever   *)
(* the other PWMs, writes and calls do meanwhile.                          *)
THEOREM DutyIsAccurate == WaveSpec => []DutyAccurate
<1>1. WaveInit => PwmInv /\ WaveInv
  BY InitInv, InitWave DEF WaveInit
<1>2. PwmInv /\ WaveInv /\ [WaveNext]_wvars => PwmInv' /\ WaveInv'
  <2>. SUFFICES ASSUME PwmInv, WaveInv, [WaveNext]_wvars
                PROVE  PwmInv' /\ WaveInv'
    OBVIOUS
  <2>1. [Next]_vars
    BY DEF WaveNext, WaveTick, WaveStore, WaveBridge, WaveCall, Next, wvars
  <2>2. PwmInv'
    BY <2>1, NextInv
  <2>3. ASSUME UNCHANGED wvars PROVE WaveInv'
    <3>1. UNCHANGED <<counter, pwm, made, out, rmw, steady, highs, lows, hit, late>>
      BY <2>3 DEF wvars, vars, wave, timer, pool, gpio
    <3>2. \A x : ActiveOn(x)' = ActiveOn(x) /\ HighSoFar(x)' = HighSoFar(x)
      BY <3>1 DEF ActiveOn, Active, HighSoFar
    <3>3. ThresholdInv' /\ LateInv'
      BY <3>1 DEF WaveInv, ThresholdInv, LateInv
    <3>4. SteadyInv'
      BY <3>1, <3>2 DEF WaveInv, SteadyInv
    <3>. QED BY <3>3, <3>4 DEF WaveInv
  <2>. QED
    BY <2>2, <2>3, CallWave, BridgeWave, StoreWave, TickWave DEF WaveNext
<1>. QED
  BY <1>1, <1>2, WaveAccurate, PTL DEF WaveSpec

=============================================================================
