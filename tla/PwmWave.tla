------------------------------ MODULE PwmWave ------------------------------
(***************************************************************************)
(* What a pin with a PWM shows to the outside over a period: the history   *)
(* of Pwm that tells how long it was high, also between two ticks, where   *)
(* only the stores of pin.c and bridge.c can change it.                    *)
(***************************************************************************)
EXTENDS Pwm

VARIABLES
  steady,       (* PWMs alone on an output pin, the same and with the same *)
                (* duty since the period began                             *)
  highs, lows,  (* of those: the ticks of this period that left the pin    *)
                (* high, or low, and the times it became so in between     *)
  hit,          (* a tick has come since the pin write under way loaded    *)
  late          (* the writes of this period that a tick has hit           *)

wave  == <<steady, highs, lows, hit, late>>
wvars == <<vars, wave>>

-----------------------------------------------------------------------------
One(b) == IF b THEN 1 ELSE 0

(* PWMs that are alone on their pin, an output. *)
Sole == {x \in Pwms : ActiveOn(pwm[x].pin) = {x} /\ pwm[x].pin \in outen}

(* This step leaves x with its duty and alone on its pin. *)
Same(x) == pwm'[x] = pwm[x] /\ x \in Sole'

(* n before this tick, where the period that ends does not count.          *)
SoFar(n) == IF counter' = 0 THEN 0 ELSE n

WaveTick ==
  /\ Tick
  /\ steady' = IF counter' = 0 THEN Sole ELSE steady
  /\ highs' = [x \in Pwms |->
                 IF x \in steady' THEN SoFar(highs[x]) + One(pwm[x].pin \in out') ELSE 0]
  /\ lows'  = [x \in Pwms |->
                 IF x \in steady' THEN SoFar(lows[x]) + One(pwm[x].pin \notin out') ELSE 0]
  /\ hit' = (rmw # NoWrite) /\ late' = SoFar(late)

(* A store disturbs the PWMs on its own pin, and is seen on all others.    *)
WaveStore ==
  /\ WriteStore
  /\ steady' = steady \ ActiveOn(rmw.pin)
  /\ highs' = [x \in Pwms |-> highs[x] + One(x \in steady' /\ pwm[x].pin \in out' \ out)]
  /\ lows'  = [x \in Pwms |-> lows[x] + One(x \in steady' /\ pwm[x].pin \in out \ out')]
  /\ hit' = FALSE /\ late' = late + One(hit)

(* write() of the bridge is to all pins. *)
WaveBridge ==
  /\ BridgeCall
  /\ steady' = {}
  /\ UNCHANGED <<highs, lows, hit, late>>

(* All other calls leave DATAOUT alone. *)
WaveCall ==
  /\ PwmCall \/ PinCall
  /\ steady' = {x \in steady : Same(x)}
  /\ UNCHANGED <<highs, lows, hit, late>>

WaveInit ==
  /\ Init
  /\ steady = {} /\ hit = FALSE /\ late = 0
  /\ highs = [x \in Pwms |-> 0] /\ lows = [x \in Pwms |-> 0]

WaveNext == WaveTick \/ WaveStore \/ WaveBridge \/ WaveCall

WaveSpec == WaveInit /\ [][WaveNext]_wvars

-----------------------------------------------------------------------------
(* Over a period in which nobody touches the PWM or its pin, the pin is    *)
(* high for duty/1024 of the ticks, to within one tick and one more for    *)
(* each write to another pin that a tick has hit: its store puts back the  *)
(* level of before the tick, for the rest of one tick and no longer.  The  *)
(* ticks in which the pin is high for some time are no more than that, and *)
(* neither are those in which it is low for some time.                     *)
DutyAccurate ==
  \A x \in steady : counter = Resolution - 1 /\ pwm[x].duty <= DutyRange =>
    /\ (highs[x] - late) * DutyRange <= pwm[x].duty * Resolution
    /\ pwm[x].duty * Resolution < (Resolution - (lows[x] - late) + 1) * DutyRange

=============================================================================
