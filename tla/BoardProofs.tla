---------------------------- MODULE BoardProofs ----------------------------
(***************************************************************************)
(* What soft reboots leave behind, the watchdog and the sleeps are right   *)
(* for every clock, word, timeout and delay.                               *)
(***************************************************************************)
EXTENDS Board, TLAPS

(* A handler belongs to a pin that is in its table: when the two get old,  *)
(* they do so together.                                                    *)
LostInv ==
  LostFromTables /\ (tables["irq"] # "none" => tables["pin"] # "none")

(* The watchdog still counts what is left of the timeout, or it is over.   *)
DogInv ==
  wdt.on /\ asked < Word =>
    /\ wdt.load = asked
    /\ since >= asked \/ since + wdt.value >= asked

(* Outside a sleep none is under way; its loop waits only while some of    *)
(* the delay is left, or when the tick that ended it has just come.        *)
SleepInv ==
  /\ pc \in Boot \cup {"repl"} => sleep = NoSleep
  /\ pc = "go" /\ sleep.delay > 0 => Elapsed < sleep.delay
  /\ pc = "wfi" /\ sleep.delay > 0 => Elapsed <= sleep.delay

-----------------------------------------------------------------------------
(* The arithmetic of the tick counter, for words of any size.              *)

LEMMA ModType ==
  ASSUME NEW a \in Int, NEW m \in Nat \ {0}
  PROVE  a % m \in 0 .. m - 1
OBVIOUS

LEMMA ModSmall ==
  ASSUME NEW m \in Nat \ {0}, NEW a \in 0 .. m - 1
  PROVE  a % m = a
OBVIOUS

LEMMA ModBelow ==
  ASSUME NEW m \in Nat \ {0}, NEW a \in -m .. -1
  PROVE  a % m = a + m
OBVIOUS

(* A tick makes the time since b one tick longer, also when the counter    *)
(* wraps.                                                                  *)
LEMMA TickElapsed ==
  ASSUME NEW m \in Nat \ {0}, NEW a \in 0 .. m - 1, NEW b \in 0 .. m - 1,
         (a - b) % m < m - 1
  PROVE  (((a + 1) % m) - b) % m = ((a - b) % m) + 1
<1>1. CASE b <= a /\ a < m - 1
  <2>1. (a + 1) % m = a + 1 /\ (a - b) % m = a - b
    BY <1>1, ModSmall
  <2>2. (a + 1 - b) % m = a + 1 - b
    BY <1>1, ModSmall
  <2>. QED BY <2>1, <2>2
<1>2. CASE b <= a /\ a = m - 1
  <2>1. (a + 1) % m = 0 /\ (a - b) % m = a - b
    BY <1>2, ModSmall
  <2>2. b > 0
    BY <1>2, <2>1
  <2>3. 0 - b \in -m .. -1
    BY <2>2
  <2>4. (0 - b) % m = m - b
    BY <2>3, ModBelow
  <2>. QED BY <1>2, <2>1, <2>4
<1>3. CASE a < b
  <2>. a - b \in -m .. -1
    BY <1>3
  <2>. a + 1 \in 0 .. m - 1
    BY <1>3
  <2>1. (a + 1) % m = a + 1 /\ (a - b) % m = a - b + m
    BY ModSmall, ModBelow
  <2>2. CASE a + 1 < b
    <3>. a + 1 - b \in -m .. -1
      BY <2>2
    <3>. QED BY <2>1, ModBelow
  <2>3. CASE a + 1 = b
    BY <1>3, <2>1, <2>3
  <2>. QED BY <1>3, <2>2, <2>3
<1>. QED
  BY <1>1, <1>2, <1>3

-----------------------------------------------------------------------------
(* Arithmetic of uint32_t *)

LEMMA Params ==
  /\ CyclesPerMs \in Nat \ {0} /\ Word \in Nat \ {0} /\ TickMod \in Nat \ {0}
  /\ MaxLag \in Nat \ {0}
  /\ \A d \in Delays : d \in Nat /\ d + MaxLag < TickMod
  /\ \A t \in Timeouts : t \in Nat
BY BoardAssumption

LEMMA LoadType ==
  ASSUME NEW t \in Timeouts
  PROVE  LoadFor(t) \in 0 .. Word - 1 /\ t * CyclesPerMs \in Nat
<1>1. t * CyclesPerMs \in Nat /\ t * CyclesPerMs \in Int /\ Word \in Nat \ {0}
  BY Params
<1>. QED
  BY <1>1, ModType, Zenon DEF LoadFor

-----------------------------------------------------------------------------
(* Types *)

LEMMA NoSleepType ==
  NoSleep \in [delay : Delays \cup {0}, start : 0 .. TickMod - 1, deep : BOOLEAN]
BY Params DEF NoSleep

LEMMA InitType == Init => TypeOK
<1>. SUFFICES ASSUME Init PROVE TypeOK
  OBVIOUS
<1>1. tables \in [Tables -> Ages] /\ queue \in Ages
  BY DEF Init, Empty, Ages
<1>2. sleep \in [delay : Delays \cup {0}, start : 0 .. TickMod - 1, deep : BOOLEAN]
  BY Params DEF Init, NoSleep
<1>3. wdt \in [on : BOOLEAN, load : 0 .. Word - 1, value : 0 .. Word - 1, raised : BOOLEAN]
  BY Params DEF Init, WdtOff
<1>4. started \in BOOLEAN
  BY DEF Init
<1>. QED
  BY <1>1, <1>2, <1>3, <1>4, Params DEF Init, TypeOK

(* What a cycle does to everything but pc and the watchdog's registers.    *)
LEMMA CycleType ==
  ASSUME TypeOK, Cycle
  PROVE  /\ UNCHANGED <<mode, tables, started, sleep, asked>>
         /\ queue' \in Ages /\ ticks' \in 0 .. TickMod - 1
         /\ phase' \in 0 .. CyclesPerMs - 1 /\ since' \in 0 .. Word
         /\ Counted \in 0 .. Word - 1
         /\ pc \in Boot \cup Sleeping \cup {"repl", "hung"}
         /\ Reach \in Boot \cup Sleeping \cup {"repl", "hung"}
<1>1. queue' \in Ages
  BY DEF Cycle, Post, Oldest, TypeOK, Tables, Ages
<1>2. ticks' \in 0 .. TickMod - 1
  <2>. ticks + 1 \in Int /\ TickMod \in Nat \ {0}
    BY Params DEF TypeOK
  <2>. (ticks + 1) % TickMod \in 0 .. TickMod - 1
    BY ModType, Zenon
  <2>. QED BY DEF Cycle, TypeOK
<1>3. phase' \in 0 .. CyclesPerMs - 1
  <2>. phase + 1 \in Int /\ CyclesPerMs \in Nat \ {0}
    BY Params DEF TypeOK
  <2>. (phase + 1) % CyclesPerMs \in 0 .. CyclesPerMs - 1
    BY ModType, Zenon
  <2>. QED BY DEF Cycle, TypeOK
<1>4. since' \in 0 .. Word
  BY Params DEF Cycle, TypeOK
<1>5. Counted \in 0 .. Word - 1
  BY Params DEF Counted, TypeOK
<1>6. pc \in Boot \cup Sleeping \cup {"repl", "hung"}
  BY DEF Cycle, TypeOK
<1>7. Reach \in Boot \cup Sleeping \cup {"repl", "hung"}
  BY <1>6 DEF Reach, Woken, Sleeping
<1>. QED
  BY <1>1, <1>2, <1>3, <1>4, <1>5, <1>6, <1>7 DEF Cycle

LEMMA ClockType ==
  ASSUME TypeOK, Clock
  PROVE  TypeOK'
<1>1. Cycle
  BY DEF Clock, Count, Bark, Bite
<1>2. pc' \in Boot \cup Sleeping \cup {"reset", "repl", "hung"}
  BY <1>1, CycleType DEF Clock, Count, Bark, Bite, After
<1>3. wdt' \in [on : BOOLEAN, load : 0 .. Word - 1, value : 0 .. Word - 1, raised : BOOLEAN]
  <2>1. Counted \in 0 .. Word - 1 /\ 0 \in 0 .. Word - 1
    BY <1>1, CycleType, Params
  <2>2. wdt \in [on : BOOLEAN, load : 0 .. Word - 1, value : 0 .. Word - 1, raised : BOOLEAN]
    BY DEF TypeOK
  <2>. QED
    BY <2>1, <2>2 DEF Clock, Count, Bark, Bite
<1>. QED
  BY <1>1, <1>2, <1>3, CycleType DEF TypeOK

LEMMA HandlerType ==
  ASSUME TypeOK, Handler
  PROVE  TypeOK'
<1>1. pc' \in Boot \cup Sleeping \cup {"reset", "repl", "hung"}
  BY DEF Handler, TIMER1_Handler, GPIO_Handler, After, Woken, TypeOK, Sleeping
<1>2. queue' \in Ages
  BY DEF Handler, TIMER1_Handler, GPIO_Handler, Post, Oldest, heap, TypeOK, Ages, Tables
<1>. QED
  BY <1>1, <1>2 DEF Handler, TIMER1_Handler, GPIO_Handler, TypeOK, heap, time, dog

LEMMA ProgramType ==
  ASSUME TypeOK, Program
  PROVE  TypeOK'
<1>. USE DEF heap, time, dog, Stage, Boot, Sleeping
<1>1. CASE Reset_Handler
  <2>1. tables' \in [Tables -> Ages] /\ queue' \in Ages
    BY <1>1 DEF Reset_Handler, Empty, Ages
  <2>2. sleep' \in [delay : Delays \cup {0}, start : 0 .. TickMod - 1, deep : BOOLEAN]
    BY <1>1, Params DEF Reset_Handler, NoSleep
  <2>3. wdt' \in [on : BOOLEAN, load : 0 .. Word - 1, value : 0 .. Word - 1, raised : BOOLEAN]
    BY <1>1, Params DEF Reset_Handler, WdtOff
  <2>4. started' \in BOOLEAN
    BY <1>1 DEF Reset_Handler
  <2>. QED
    BY <1>1, <2>1, <2>2, <2>3, <2>4, Params DEF Reset_Handler, TypeOK
<1>2. CASE gc_init
  <2>1. tables' \in [Tables -> Ages] /\ queue' \in Ages
    BY <1>2 DEF gc_init, Older, TypeOK, Ages
  <2>. QED
    BY <1>2, <2>1 DEF gc_init, TypeOK
<1>3. CASE mp_init
  BY <1>3 DEF mp_init, TypeOK, Ages
<1>4. CASE mp_hal_init
  BY <1>4, Params DEF mp_hal_init, TypeOK
<1>5. CASE Mount
  BY <1>5 DEF Mount, TypeOK
<1>6. CASE Check
  <2>1. sleep' \in [delay : Delays \cup {0}, start : 0 .. TickMod - 1, deep : BOOLEAN]
    BY <1>6, NoSleepType DEF Check, Wake, TypeOK
  <2>. QED
    BY <1>6, <2>1 DEF Check, Wake, TypeOK
<1>7. CASE Wfi
  BY <1>7 DEF Wfi, TypeOK
<1>8. CASE AfterWfi
  <2>1. sleep' \in [delay : Delays \cup {0}, start : 0 .. TickMod - 1, deep : BOOLEAN]
    BY <1>8, NoSleepType DEF AfterWfi, Wake, TypeOK
  <2>2. queue' \in Ages
    BY <1>8 DEF AfterWfi, Wake, UpTo, TypeOK, heap
  <2>3. pc' \in {"reset", "repl", "check", "hung"}
    BY <1>8 DEF AfterWfi, Wake, After
  <2>4. UNCHANGED <<mode, tables, time, dog>>
    BY <1>8 DEF AfterWfi, Wake
  <2>. QED
    BY <2>1, <2>2, <2>3, <2>4 DEF TypeOK
<1>. QED
  BY <1>1, <1>2, <1>3, <1>4, <1>5, <1>6, <1>7, <1>8 DEF Program

LEMMA ScriptType ==
  ASSUME TypeOK, Script
  PROVE  TypeOK'
<1>. USE DEF heap, time, dog, Stage, Boot, Sleeping
<1>1. CASE \E key \in {"ctrl-A", "ctrl-B", "ctrl-D"} : FriendlyRepl(key) \/ RawRepl(key)
  BY <1>1 DEF FriendlyRepl, RawRepl, SoftReboot, TypeOK
<1>2. CASE (\E t \in {"pool", "pin"} : Register(t)) \/ Unregister
  BY <1>2 DEF Register, Unregister, TypeOK, Ages
<1>7. CASE \E handler \in {"none", "cur"} : SetIrq(handler)
  <2>1. PICK a \in Ages : tables' = [tables EXCEPT !["irq"] = a]
    BY <1>7 DEF SetIrq, UpTo, Oldest, Ages
  <2>2. tables' \in [Tables -> Ages]
    BY <2>1 DEF TypeOK
  <2>. QED
    BY <1>7, <2>2 DEF SetIrq, After, Scripting, TypeOK
<1>3. CASE \E d \in Delays, deep \in BOOLEAN : Lightsleep(d, deep)
  <2>1. sleep' \in [delay : Delays \cup {0}, start : 0 .. TickMod - 1, deep : BOOLEAN]
    BY <1>3, Params DEF Lightsleep, TypeOK
  <2>. QED
    BY <1>3, <2>1 DEF Lightsleep, TypeOK
<1>4. CASE \E t \in Timeouts : machine_wdt_make_new(t)
  <2>. PICK t \in Timeouts : machine_wdt_make_new(t)
    BY <1>4
  <2>. QED
    BY LoadType, Params DEF machine_wdt_make_new, TypeOK
<1>5. CASE machine_wdt_feed
  <2>1. wdt' \in [on : BOOLEAN, load : 0 .. Word - 1, value : 0 .. Word - 1, raised : BOOLEAN]
    BY <1>5, Params DEF machine_wdt_feed, TypeOK
  <2>2. since' = 0 /\ UNCHANGED <<pc, mode, tables, queue, started, ticks, phase, sleep, asked>>
    BY <1>5 DEF machine_wdt_feed
  <2>. QED
    BY <2>1, <2>2, Params DEF TypeOK
<1>6. CASE machine_reset \/ RunPending \/ Fatal
  BY <1>6 DEF machine_reset, RunPending, UpTo, Fatal, After, TypeOK
<1>. QED
  BY <1>1, <1>2, <1>3, <1>4, <1>5, <1>6, <1>7 DEF Script

LEMMA NextType == TypeOK /\ [Next]_vars => TypeOK'
<1>1. ASSUME TypeOK, UNCHANGED vars PROVE TypeOK'
  BY <1>1 DEF TypeOK, vars, heap, time, dog
<1>. QED
  BY <1>1, ClockType, HandlerType, ProgramType, ScriptType DEF Next

(* Types: ticks_ms and the watchdog's registers stay machine words.        *)
THEOREM BoardTypeCorrect == Spec => []TypeOK
BY InitType, NextType, PTL DEF Spec

-----------------------------------------------------------------------------
(* Lost heaps *)

(* An entry is no older than what the handler has queued it for, and not   *)
(* older than the queue was.                                               *)
LEMMA PostOld ==
  ASSUME NEW a \in Ages, queue' \in {queue} \cup Post(a), queue' = "old"
  PROVE  queue = "old" \/ a = "old"
BY DEF Post, Oldest, Ages

LEMMA InitLost == Init => LostInv
BY DEF Init, LostInv, LostFromTables, Empty, Tables

LEMMA ClockLost ==
  ASSUME TypeOK, LostInv, Clock
  PROVE  LostInv'
<1>1. Cycle
  BY DEF Clock, Count, Bark, Bite
<1>2. tables' = tables /\ tables["pool"] \in Ages
  BY <1>1 DEF Cycle, TypeOK, Tables
<1>3. pc \in {"mp_init", "hung", "reset"} => pc' \in {"mp_init", "hung", "reset"}
  BY <1>1 DEF Cycle, Clock, Count, Bark, Bite, After, Reach, Woken, Tick
<1>4. queue' = "old" => queue = "old" \/ tables["pool"] = "old"
  BY <1>1, <1>2, PostOld DEF Cycle
<1>. QED
  BY <1>2, <1>3, <1>4 DEF LostInv, LostFromTables

LEMMA HandlerLost ==
  ASSUME TypeOK, LostInv, Handler
  PROVE  LostInv'
<1>1. tables' = tables /\ \A t \in Tables : tables[t] \in Ages
  BY DEF Handler, TIMER1_Handler, GPIO_Handler, heap, TypeOK
<1>2. pc \in {"mp_init", "hung", "reset"} => pc' \in {"mp_init", "hung", "reset"}
  BY DEF Handler, TIMER1_Handler, GPIO_Handler, After, Woken
<1>3. queue' = "old" => queue = "old" \/ tables["pin"] = "old"
  <2>1. CASE TIMER1_Handler
    BY <2>1 DEF TIMER1_Handler, heap
  <2>2. CASE GPIO_Handler
    <3>. DEFINE a == Oldest({tables["irq"], tables["pin"]})
    <3>1. a \in Ages /\ (a = "old" => tables["pin"] = "old")
      BY <1>1 DEF Oldest, Ages, Tables, LostInv, LostFromTables
    <3>2. queue' \in {queue} \cup Post(a)
      BY <2>2 DEF GPIO_Handler
    <3>. HIDE DEF a
    <3>. QED BY <3>1, <3>2, PostOld
  <2>. QED BY <2>1, <2>2 DEF Handler
<1>. QED
  BY <1>1, <1>2, <1>3 DEF LostInv, LostFromTables

LEMMA ProgramLost ==
  ASSUME TypeOK, LostInv, Program
  PROVE  LostInv'
<1>. USE DEF heap, Stage, LostInv, LostFromTables
<1>1. CASE Reset_Handler
  BY <1>1 DEF Reset_Handler, Empty, Tables
<1>2. CASE gc_init
  BY <1>2 DEF gc_init, Older, TypeOK, Ages, Tables
<1>3. CASE mp_init \/ mp_hal_init \/ Mount \/ Check \/ Wfi
  BY <1>3 DEF mp_init, mp_hal_init, Mount, Check, Wfi, Wake
<1>4. CASE AfterWfi
  BY <1>4 DEF AfterWfi, Wake, After, UpTo, Oldest
<1>. QED
  BY <1>1, <1>2, <1>3, <1>4 DEF Program

LEMMA ScriptLost ==
  ASSUME TypeOK, LostInv, Script
  PROVE  LostInv'
<1>. USE DEF heap, Stage, LostInv, LostFromTables
<1>1. CASE \E key \in {"ctrl-A", "ctrl-B", "ctrl-D"} : FriendlyRepl(key) \/ RawRepl(key)
  BY <1>1 DEF FriendlyRepl, RawRepl, SoftReboot
<1>2. CASE (\E t \in {"pool", "pin"} : Register(t)) \/ Unregister
  <2>1. pc' = pc /\ queue' = queue /\ pc \in {"repl", "woken"}
    BY <1>2 DEF Register, Unregister, Scripting
  <2>2. /\ tables'["irq"] = tables["irq"]
        /\ \A t \in Tables : tables[t] = "old" => tables'[t] = "old"
        /\ tables["pin"] # "none" => tables'["pin"] # "none"
    BY <1>2 DEF Register, Unregister, TypeOK, Tables
  <2>. QED
    BY <2>1, <2>2 DEF Tables
<1>3. CASE \E handler \in {"none", "cur"} : SetIrq(handler)
  <2>1. queue' = queue /\ pc \in {"repl", "woken"}
    BY <1>3 DEF SetIrq, Scripting
  <2>2. /\ tables'["pool"] = tables["pool"] /\ tables'["pin"] = tables["pin"]
        /\ tables["pin"] # "none"
        /\ tables'["irq"] = "old" => tables["irq"] = "old"
    BY <1>3 DEF SetIrq, UpTo, Oldest, TypeOK, Tables, Ages
  <2>. QED
    BY <2>1, <2>2
<1>4. CASE \E d \in Delays, deep \in BOOLEAN : Lightsleep(d, deep)
  BY <1>4 DEF Lightsleep
<1>5. CASE \E t \in Timeouts : machine_wdt_make_new(t)
  BY <1>5 DEF machine_wdt_make_new
<1>6. CASE machine_wdt_feed \/ machine_reset \/ Fatal
  BY <1>6 DEF machine_wdt_feed, machine_reset, Fatal
<1>7. CASE RunPending
  BY <1>7 DEF RunPending, After, UpTo, Oldest
<1>. QED
  BY <1>1, <1>2, <1>3, <1>4, <1>5, <1>6, <1>7 DEF Script

(* No callback about an object of a lost heap is queued but through a      *)
(* table of the port that still holds one: what was queued before a soft   *)
(* reboot, or while it set up the new heap, is gone.                       *)
THEOREM LostOnlyFromTables == Spec => []LostFromTables
<1>1. TypeOK /\ LostInv /\ [Next]_vars => LostInv'
  <2>1. ASSUME LostInv, UNCHANGED vars PROVE LostInv'
    BY <2>1 DEF LostInv, LostFromTables, vars, heap
  <2>. QED
    BY <2>1, ClockLost, HandlerLost, ProgramLost, ScriptLost DEF Next
<1>2. LostInv => LostFromTables
  BY DEF LostInv
<1>. QED
  BY <1>1, <1>2, InitLost, BoardTypeCorrect, PTL DEF Spec

-----------------------------------------------------------------------------
(* The watchdog *)

LEMMA InitDog == Init => DogInv
BY DEF Init, DogInv, WdtOff

LEMMA DogTypes ==
  ASSUME TypeOK
  PROVE  /\ wdt.load \in Nat /\ wdt.value \in Nat /\ since \in Nat /\ asked \in Nat
         /\ Word \in Nat \ {0}
BY Params DEF TypeOK

(* A cycle takes one from what is left, or starts over after it is over.   *)
LEMMA ClockDog ==
  ASSUME TypeOK, DogInv, Clock
  PROVE  DogInv'
<1>. SUFFICES ASSUME wdt'.on, asked' < Word PROVE DogInv'
  BY DEF DogInv
<1>1. Cycle
  BY DEF Clock, Count, Bark, Bite
<1>2. /\ wdt.on /\ wdt'.load = wdt.load /\ wdt'.value = Counted
      /\ asked' = asked
  BY <1>1 DEF Clock, Count, Bark, Bite, Cycle, Zero, TypeOK
<1>3. /\ wdt.load = asked
      /\ since >= asked \/ since + wdt.value >= asked
  BY <1>2 DEF DogInv
<1>4. since' = IF since < Word THEN since + 1 ELSE since
  BY <1>1, <1>2 DEF Cycle
<1>. QED
  BY <1>2, <1>3, <1>4, DogTypes DEF DogInv, Counted

LEMMA NextDog == TypeOK /\ DogInv /\ [Next]_vars => DogInv'
<1>. SUFFICES ASSUME TypeOK, DogInv, [Next]_vars PROVE DogInv'
  OBVIOUS
<1>1. ASSUME UNCHANGED dog PROVE DogInv'
  BY <1>1 DEF dog, DogInv
<1>2. CASE Handler
  BY <1>1, <1>2 DEF Handler, TIMER1_Handler, GPIO_Handler, dog
<1>3. CASE Program
  <2>1. CASE Reset_Handler
    BY <2>1 DEF Reset_Handler, WdtOff, DogInv
  <2>2. CASE ~Reset_Handler
    BY <1>1, <1>3, <2>2 DEF Program, gc_init, mp_init, mp_hal_init, Mount, Check,
       Wfi, AfterWfi, Wake, dog
  <2>. QED
    BY <2>1, <2>2
<1>4. CASE \E t \in Timeouts : machine_wdt_make_new(t)
  <2>1. PICK t \in Timeouts : machine_wdt_make_new(t)
    BY <1>4
  <2>2. t * CyclesPerMs \in Nat
    BY LoadType
  <2>3. /\ asked' = t * CyclesPerMs /\ since' = 0
        /\ wdt'.load = LoadFor(t) /\ wdt'.value = LoadFor(t)
    BY <2>1 DEF machine_wdt_make_new
  <2>4. asked' < Word => LoadFor(t) = asked'
    <3>. SUFFICES ASSUME t * CyclesPerMs < Word PROVE (t * CyclesPerMs) % Word = t * CyclesPerMs
      BY <2>3 DEF LoadFor
    <3>1. t * CyclesPerMs \in 0 .. Word - 1 /\ Word \in Nat \ {0}
      BY <2>2, Params
    <3>. QED
      BY <3>1, ModSmall, Zenon
  <2>5. asked' \in Nat
    BY <2>2, <2>3
  <2>. QED
    BY <2>3, <2>4, <2>5 DEF DogInv
<1>5. CASE machine_wdt_feed
  <2>1. /\ wdt'.load = wdt.load /\ wdt'.value = wdt.load /\ since' = 0
        /\ asked' = asked /\ wdt'.on = wdt.on
    BY <1>5 DEF machine_wdt_feed, TypeOK
  <2>. QED
    BY <2>1, DogTypes DEF DogInv
<1>6. CASE UNCHANGED vars
  BY <1>1, <1>6 DEF vars
<1>7. CASE Script /\ ~(\E t \in Timeouts : machine_wdt_make_new(t)) /\ ~machine_wdt_feed
  BY <1>1, <1>7 DEF Script, FriendlyRepl, RawRepl, SoftReboot, Register, Unregister, SetIrq,
     Lightsleep, machine_reset, RunPending, Fatal, dog
<1>. QED
  BY <1>2, <1>3, <1>4, <1>5, <1>6, <1>7, ClockDog DEF Next

(* The watchdog never cuts a timeout short that fits its register.         *)
THEOREM NoEarlyBites == Spec => NoEarlyBite
<1>1. TypeOK /\ DogInv /\ [Next]_vars
      => [Bark \/ Bite => asked >= Word \/ since' >= asked]_vars
  <2>. SUFFICES ASSUME TypeOK, DogInv, Bark \/ Bite, asked < Word
                PROVE  since' >= asked
    BY DogTypes
  <2>1. wdt.on /\ Counted = 0 /\ since' = IF since < Word THEN since + 1 ELSE since
    BY DEF Bark, Bite, Zero, Cycle
  <2>. QED
    BY <2>1, DogTypes DEF DogInv, Counted
<1>. QED
  BY <1>1, InitDog, NextDog, BoardTypeCorrect, PTL DEF Spec, NoEarlyBite

-----------------------------------------------------------------------------
(* Sleeps *)

LEMMA InitSleep == Init => SleepInv
BY DEF Init, SleepInv

LEMMA SleepTypes ==
  ASSUME TypeOK
  PROVE  /\ sleep.delay \in Nat /\ sleep.delay < TickMod
         /\ sleep.start \in 0 .. TickMod - 1 /\ ticks \in 0 .. TickMod - 1
         /\ TickMod \in Nat \ {0} /\ Elapsed \in 0 .. TickMod - 1
<1>1. /\ sleep.delay \in Nat /\ sleep.delay < TickMod
      /\ sleep.start \in 0 .. TickMod - 1 /\ ticks \in 0 .. TickMod - 1
      /\ TickMod \in Nat \ {0}
  BY Params DEF TypeOK
<1>2. ticks - sleep.start \in Int
  BY <1>1
<1>3. Elapsed \in 0 .. TickMod - 1
  BY <1>1, <1>2, ModType, Zenon DEF Elapsed
<1>. QED
  BY <1>1, <1>3

(* The tick that ends a delay comes before the wfi that waits for it, or   *)
(* ends that wfi.                                                          *)
LEMMA ClockSleep ==
  ASSUME TypeOK, SleepInv, Clock
  PROVE  SleepInv'
<1>1. Cycle
  BY DEF Clock, Count, Bark, Bite
<1>2. sleep' = sleep
  BY <1>1 DEF Cycle
<1>3. pc' \in Boot \cup {"repl"} => pc' = pc
  BY DEF Clock, Count, Bark, Bite, After, Reach, Woken, Boot
<1>4. pc' # "go"
  BY <1>1 DEF Cycle, Clock, Count, Bark, Bite, After, Reach, Woken
<1>5. ASSUME pc' = "wfi", sleep.delay > 0
      PROVE  Elapsed' <= sleep.delay
  <2>1. pc = "go" \/ (pc = "wfi" /\ ~Tick)
    BY <1>5 DEF Clock, Count, Bark, Bite, After, Reach, Woken
  <2>2. CASE ~Tick
    <3>1. Elapsed' = Elapsed
      BY <1>1, <1>2, <2>2 DEF Cycle, Elapsed
    <3>. QED
      BY <1>5, <2>1, <3>1, SleepTypes DEF SleepInv
  <2>3. CASE Tick
    <3>1. pc = "go" /\ Elapsed < sleep.delay
      BY <1>5, <2>1, <2>3 DEF SleepInv
    <3>2. Elapsed < TickMod - 1
      BY <3>1, SleepTypes
    <3>3. (((ticks + 1) % TickMod) - sleep.start) % TickMod = Elapsed + 1
      BY <3>2, SleepTypes, TickElapsed DEF Elapsed
    <3>4. Elapsed' = Elapsed + 1
      BY <1>1, <1>2, <2>3, <3>3 DEF Cycle, Elapsed
    <3>. QED
      BY <3>1, <3>4, SleepTypes
  <2>. QED
    BY <2>2, <2>3
<1>. QED
  BY <1>2, <1>3, <1>4, <1>5 DEF SleepInv

LEMMA ProgramSleep ==
  ASSUME TypeOK, SleepInv, Program
  PROVE  SleepInv'
<1>. USE DEF Stage, Boot
<1>1. CASE Reset_Handler
  BY <1>1 DEF Reset_Handler, SleepInv
<1>2. CASE gc_init \/ mp_init \/ mp_hal_init \/ Mount
  BY <1>2 DEF gc_init, mp_init, mp_hal_init, Mount, SleepInv
<1>3. CASE (pc = "check" /\ Slept /\ Wake) \/ (pc = "woken" /\ sleep.delay = 0 /\ Wake)
  BY <1>3 DEF Wake, SleepInv, NoSleep
<1>4. CASE Stage("check", "go") /\ ~Slept /\ UNCHANGED <<heap, time, sleep, dog>>
  <2>1. Elapsed < sleep.delay /\ Elapsed' = Elapsed
    BY <1>4, SleepTypes DEF Slept, Elapsed, time
  <2>. QED
    BY <1>4, <2>1 DEF SleepInv
<1>5. CASE Wfi
  <2>1. Elapsed' = Elapsed
    BY <1>5 DEF Wfi, Elapsed, time
  <2>. QED
    BY <1>5, <2>1, SleepTypes DEF Wfi, SleepInv
<1>6. CASE /\ pc = "woken" /\ sleep.delay > 0
           /\ pc' \in After(queue, "check") /\ queue' \in UpTo(queue)
           /\ UNCHANGED <<mode, tables, time, sleep, dog>>
  BY <1>6 DEF After, SleepInv
<1>. QED
  BY <1>1, <1>2, <1>3, <1>4, <1>5, <1>6 DEF Program, Check, AfterWfi

LEMMA NextSleep == TypeOK /\ SleepInv /\ [Next]_vars => SleepInv'
<1>. SUFFICES ASSUME TypeOK, SleepInv, [Next]_vars PROVE SleepInv'
  OBVIOUS
<1>1. ASSUME sleep' = sleep, ticks' = ticks,
             pc' = pc \/ pc' \in {"woken", "hung", "reset"}
                      \/ (pc = "repl" /\ pc' \in Boot \cup {"repl"})
      PROVE  SleepInv'
  <2>1. Elapsed' = Elapsed
    BY <1>1 DEF Elapsed
  <2>. QED
    BY <1>1, <2>1 DEF SleepInv, Boot
<1>2. CASE Handler
  BY <1>1, <1>2 DEF Handler, TIMER1_Handler, GPIO_Handler, After, Woken, time
<1>3. CASE \E d \in Delays, deep \in BOOLEAN : Lightsleep(d, deep)
  BY <1>3 DEF Lightsleep, SleepInv, Stage, Boot
<1>4. CASE UNCHANGED vars
  BY <1>1, <1>4 DEF vars, time
<1>5. CASE Script /\ ~(\E d \in Delays, deep \in BOOLEAN : Lightsleep(d, deep))
  <2>1. sleep' = sleep /\ ticks' = ticks
    BY <1>5 DEF Script, FriendlyRepl, RawRepl, SoftReboot, Register, Unregister, SetIrq,
       machine_wdt_make_new, machine_wdt_feed, machine_reset, RunPending, Fatal, time
  <2>2. pc' = pc \/ pc' \in {"hung", "reset"} \/ (pc = "repl" /\ pc' \in Boot \cup {"repl"})
    BY <1>5 DEF Script, FriendlyRepl, RawRepl, SoftReboot, Register, Unregister, SetIrq,
       machine_wdt_make_new, machine_wdt_feed, machine_reset, RunPending, Fatal,
       After, Stage, Boot
  <2>. QED
    BY <1>1, <2>1, <2>2
<1>. QED
  BY <1>2, <1>3, <1>4, <1>5, ClockSleep, ProgramSleep DEF Next

LEMMA SleepStep ==
  ASSUME TypeOK, SleepInv, Next, sleep.delay > 0, sleep' = NoSleep, pc # "reset"
  PROVE  Elapsed >= sleep.delay
<1>1. sleep' # sleep
  BY SleepTypes DEF NoSleep
<1>2. CASE Clock
  BY <1>1, <1>2 DEF Clock, Count, Bark, Bite, Cycle
<1>3. CASE Handler
  BY <1>1, <1>3 DEF Handler, TIMER1_Handler, GPIO_Handler
<1>4. CASE Program
  BY <1>1, <1>4, SleepTypes DEF Program, Reset_Handler, gc_init, mp_init, mp_hal_init,
     Mount, Check, Wfi, AfterWfi, Slept, Stage
<1>5. CASE \E d \in Delays, deep \in BOOLEAN : Lightsleep(d, deep)
  BY <1>1, <1>5, SleepTypes DEF Lightsleep, SleepInv, Stage
<1>6. CASE Script /\ ~(\E d \in Delays, deep \in BOOLEAN : Lightsleep(d, deep))
  BY <1>1, <1>6 DEF Script, FriendlyRepl, RawRepl, SoftReboot, Register, Unregister, SetIrq,
     machine_wdt_make_new, machine_wdt_feed, machine_reset, RunPending, Fatal
<1>. QED
  BY <1>2, <1>3, <1>4, <1>5, <1>6 DEF Next

(* No sleep is short, and none waits past its end for an interrupt that    *)
(* has already come.                                                       *)
THEOREM SleepsRight == Spec => SleepsItsTime
<1>1. TypeOK /\ SleepInv /\ [Next]_vars
      => [/\ sleep.delay > 0 /\ sleep' = NoSleep /\ pc # "reset" => Elapsed >= sleep.delay
          /\ sleep.delay > 0 /\ pc = "wfi" => Elapsed <= sleep.delay]_vars
  BY SleepStep DEF SleepInv
<1>. QED
  BY <1>1, InitSleep, NextSleep, BoardTypeCorrect, PTL DEF Spec, SleepsItsTime

=============================================================================
