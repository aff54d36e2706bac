# A verification of the MicroPython port for the Tang Nano 4K

The repository ports MicroPython to the Cortex-M3 of the GW1NSR-4C
(`src/src/ports/tang_nano_4k`), with a small SoC in Verilog around it
(`src/src/verilog`). This directory holds TLA+ models of the port's own logic,
the TLC configurations that check them and proofs for TLAPS. The MicroPython
core itself is a git submodule that is not part of the tree; where the port
depends on it (scheduler, garbage collector, heap) it is modelled from the way
the port uses it and marked external in `PROJECT.json`.

File names below are relative to `src/src/ports/tang_nano_4k`.

## 1. Inventory

Everything that is not an interrupt handler runs in one main thread: the
interpreter, the calls of the `machine` module, the collector and the polling
loops. All exceptions have the same priority, so that a handler interrupts the
main thread anywhere between two instructions but never another handler. The
port disables interrupts in one place only (`mp_hal_ticks_us`). Handlers run no
Python: they post callbacks to the scheduler's bounded queue, and the main
thread runs them when it polls (`mp_handle_pending` in `mp_hal_stdin_rx_chr`
and `mp_hal_delay_ms`).

| Component | State | Operations | Talks to | What is hard | What makes it correct |
|---|---|---|---|---|---|
| `machine.Timer` (`timer.c`) | timer objects, the root table `active_timers[4]` | `make_new`, `init`, `deinit`; `machine_timer_tick_all` every ms | SysTick, scheduler, collector | the handler sees half-made objects; the pool fills; `ticks_ms` wraps | no timer in two slots, active timers are in the pool, no dangling slot, shots on time, armed timers fire |
| SysTick time base (`mphalport.c`) | `ticks_ms`, SysTick registers | `SysTick_Handler`, `mp_hal_ticks_us`, delays | Timer | reads of three moving registers that must fit together | the microsecond clock never loses a millisecond |
| `machine.PWM` (`pwm.c`) | PWM objects, `active_pwm[8]`, `pwm_tick_counter`, `TIMER1_RELOAD` | `make_new`, `init`, `deinit`, `freq`, `duty`; `machine_pwm_tick` | GPIO, TIMER1, collector | a shared timer, a shared output register, a full pool | the pool holds exactly the active PWMs; what the pin shows is the duty cycle asked for |
| `machine.Pin` outputs (`pin.c`, `mphalport.h`), `FPGABridge` (`bridge.c`) | `DATAOUT`, `OUTEN` | `init`, `value`, `on`, `off`, `ioctl`, the open-drain calls of SoftI2C; `write` | PWM handler | read-modify-write against the handler; pulling a line low takes two registers | a pin without PWM keeps the level it was given; an open-drain line is never driven high |
| `machine.Pin` interrupts (`pin.c`, `main.c`) | `pin_irq_handler[16]`, `pin_obj[16]`, GPIO and NVIC registers | `irq`, `GPIO_Handler`, `machine_pin_dispatch_irq` | scheduler | an edge between any two stores of `irq` | only callables are posted; handlers and enables match; a handler gets its own edges |
| Scheduler (external) | queue of callbacks | schedule, run pending | Timer, Pin | overflow | bounded |
| `machine.Flash` (`flash.c`) | 4 MB of mapped flash | `readblocks`, `writeblocks`, `ioctl` | littlefs | range arithmetic in `uint32_t`, reset in mid-write | a block device that never touches the firmware |
| `machine.I2C` (`i2c.c`) | controller registers | `init`, `i2c_transfer` | slave | refused bytes, hanging slave, buffer boundaries | count, data and bus state agree; calls return |
| Main loop, boot, soft reboot (`main.c`) | REPL mode, heap, vector table | `Reset_Handler`, `gc_init` .. `mp_deinit`, the fatal handlers | everything | root tables that outlive the heap, and handlers that go on following them | no callback runs with an object of a heap that is gone (false, section 5), or only with one a table still holds; the REPL asked for is reached |
| `machine` module (`modmachine.c`) | none | `reset`, `idle`, `lightsleep`, `deepsleep` | time base, scheduler | a tick between the test of a sleep's loop and its `wfi`; `ticks_ms` wraps | a sleep is neither too short nor more than a tick too long, and ends |
| `machine.WDT` (`wdt.c`) | `LOAD`, counter, raised interrupt | `make_new`, `feed` | reset | the product that overflows; a raised interrupt that a reload leaves | never early; a lockup ends in a fresh board |
| `machine.FPGADMA` (`dma.c`) | four registers on the APB page | `transfer` | SoC decoder, Tiny Tapeout wrapper | flags no slave ever sets | copies leave the design as the words copied say |
| SoC top, Tiny Tapeout wrapper (`src/src/verilog`), `tt.py` | wrapper registers `ui_in`, `uio_in`, `ctrl` | APB transfers; `tt_init` .. `send` | SPI and ADC drivers on the same page | address decoding, a clock made by software | the design's inputs are what `tt.py` asked for; `send` is one clock edge |
| `machine.SPI` (`spi.c`) | controller registers | `init`, transfer | SoC decoder | unbounded waits, a base address of another slave | touches its own registers only |
| `machine.ADC` (`adc.c`) | two registers | `read_u16` | SoC decoder | no wait for the conversion | touches its own registers only |
| `machine.RTC` (`rtc.c`) | two registers of the device | `datetime` | device | | not modelled, section 6 |
| UART console (`uart.c`) | none | send, receive | REPL | busy waits | not modelled, section 6 |

Tools for the build, the Renode models under `src/test`, `src/definitions` and,
but for `tt_echo/tt.py`, `src/examples` (vendored documents, vendor projects,
demos) are left aside.
`PROJECT.json` lists the hazards found in this code line by line, with the
property that catches each or the reason there is none.

## 2. Modules

| Module | Models | State corresponds to | Actions correspond to |
|---|---|---|---|
| `Sched` | the scheduler's queue | - (operators on a queue) | `Schedule`: `mp_sched_schedule` |
| `Timer` | `timer.c` with SysTick | `ticks` = `ticks_ms`, `slots` = `active_timers`, `obj` = the objects; `pc`, `self`, `vals`, `now`, `todo` = the call under way; `scan` = the handler's loop index | `MakeNew`, `InitCall` .. `Return`, `DeinitCall`, `SysTick`, `SkipSlot`, `Fire`, `Collect`, `RunPending` |
| `TimerReinit` | `init` of a running timer | `Timer`, and `before` (history) = the timer's fields at the call | those of `Timer` |
| `AbstractTimer` | what a script may rely on: timers that fire when their period ends | `config`, `age`, `due` | refined by `Timer` |
| `TimerProofs` | theorems about `Timer`: the pool, the timing, the refinement of `AbstractTimer` | | |
| `Ticks` | `mp_hal_ticks_us` line by line | `val`, `countflag` = SysTick registers, locals of the function | one action per register access |
| `TicksProofs` | theorems about `Ticks` | | |
| `Pwm` | `pwm.c`, the outputs of `pin.c`, the open-drain calls of `mphalport.h`, `bridge.c` | `counter`, `slots`, `pwm`, `reload`, `out` = `DATAOUT`, `outen` = `OUTEN`; `rmw` = value loaded by a pin write; `drive` = the pin `mp_hal_pin_od_low` has still to make an output; `od` (history) = lines only used open drain | one action per call, `WriteLoad`/`WriteStore`, `OdDrive`, `Tick` |
| `PwmWave` | what a PWM's pin shows over a period | `Pwm`, and the history `steady`, `highs`, `lows`, `hit`, `late`: who is undisturbed, in how many ticks each pin was high or low for some time, and how many writes a tick has hit | those of `Pwm`, each with the history's update |
| `PinIrq` | `Pin.irq`, `GPIO_Handler`, dispatch | `pin_irq_handler`, `pin_obj`, `INTEN`, `INTPOL`, `INTSTATUS`, NVIC bits; `todo` = stores of `irq` to come | `IrqCall`, one `Store` each, `Edge`, `GPIO_Handler`, `Poll` |
| `PwmProofs` | theorems about `Pwm`: pool, output register; and about `PwmWave`: duty cycle | | |
| `PinIrqProofs` | theorems about `PinIrq`: what is posted and enabled, which edges reach whom | | |
| `BlockDev` | what littlefs relies on | `content`, `request`, `reply` | refined by `Flash` |
| `Flash` | `flash.c` byte by byte | `mem`, `request`; `todo` = addresses `memcpy` has not reached | `Call`, `StoreByte`, `Return`, `Reset` |
| `FlashProofs` | theorems about `Flash` | | |
| `I2c` | `i2c.c`, controller and slave | registers, `pc`, `left`, `buf`, `ret` | one action per command and wait; `Run` is the hardware |
| `I2cProofs` | theorems about `I2c` | | |
| `Soc` | the APB decoder of `tang_nano_4k_top.v`, `tt_m3_wrapper.v`, `tt.py`, the accesses of `spi.c`, `adc.c` and `dma.c` | `ui_in`, `uio_in`, `ctrl` = the wrapper's registers; `todo` = accesses of the call to come, `acc` = what the last read returned | `Begin` a call, `BusRead`, `BusWrite` |
| `SocProofs` | theorems about `Soc` | | |
| `Board` | `main.c`, `modmachine.c`, `wdt.c`, and the handlers as far as they follow pointers into the heap | `pc` = where the main thread is; `mode` = `pyexec_mode_kind`; `tables` = the oldest object the pools, `pin_irq_handler` and `pin_obj` point to, `queue` the same of the scheduler's; `ticks`, `phase` = `ticks_ms` and the cycles since; `sleep` = the call of `lightsleep` under way; `wdt` = the watchdog's registers | `Reset_Handler`, `gc_init`, `mp_init`, `mp_hal_init`, `Mount`, `FriendlyRepl`, `RawRepl`, `Lightsleep`, `Check`, `Wfi`, `AfterWfi`, `machine_reset`, `machine_wdt_make_new`, `machine_wdt_feed`, `Fatal`; `Count`, `Bark` and `Bite` are a clock cycle in which the watchdog does nothing, raises its interrupt, resets; `TIMER1_Handler`, `GPIO_Handler`; `Register`, `Unregister`, `SetIrq` and `RunPending` are scripts |
| `BoardProofs` | theorems about `Board` | | |

The grain follows what can be observed. In `Timer` each store of `init` and
`deinit` to a shared field is a step, because the handler can run between any
two; with `Reorder` the stores between two calls commit in any order, which C
permits for fields that are not volatile. `make_new` is one step because the
object is inactive when its slot is stored. In `Pwm` the calls are one step for
the same reason, and only the read-modify-write of `DATAOUT` is split. Handlers
that cannot be interrupted are one step, except that of `Timer`, whose
iterations are steps so that `PeriodicRepeats` and `PreciseShot` can speak of
one shot. In `PinIrq` the device registers are volatile, so the stores keep
their order. A byte on the bus of `Soc` is the set of its bits that are 1, which makes
the masks of the code unions and intersections. In `Flash` the bytes of a `memcpy` are stored in any order.
`mp_hal_pin_od_low` is a macro of two calls, so that `Pwm` has three steps for
it. In `Board` a clock cycle is a step, and so is each part of boot and of the
loop of `lightsleep`; the test of that loop takes no cycle, and ticks and interrupts may come
between it and the `wfi`. `Board` does not repeat what `Timer`, `Pwm` and `PinIrq` say of their
tables: it keeps of each only the oldest thing it points to, an object of a heap that
is gone, one of the heap in use or none, which is
what a soft reboot changes, and takes their handlers to follow it at any time. A new object
does not hide an old one in another slot, and no script can remove an old one.
A handler that follows a pointer into a heap that is gone either goes
unnoticed or ends in `Default_Handler`; both are tried.

Definitions whose name begins with `Mut` are not part of the model: each is a
plausible bug of the definition it follows, kept to show that a property can
fail.

## 3. What is checked

| Run | Instance | Shows |
|---|---|---|
| `timer_pool` | 3 timers, 2 slots, all store orders, `init` of running timers | `PoolInjective`, `ActiveRegistered`, `PoolAllocated` with the induction hypothesis `CallConsistent`: neither a full pool (`ENOMEM` after half the fields were written) nor any interleaving corrupts the pool |
| `timer_refines` | 2 timers, 2 slots, periods 0 and 2, counter modulo 3 | `AbstractSpec`: `timer.c` implements `AbstractTimer`; `PreciseShot`: no shot early, and none later than the ticks that hit the `init`; `OneShotEnds`, `PeriodicRepeats`: an armed timer fires, a periodic one again and again |
| `timer_reinit` | 1 timer, periods 1, 2 and 4, `init` of a running timer | *violation* of `ShotAsked`: with a tick between the stores of `init`, a timer of period 4 that is given period 2 a tick after its start fires a tick after that; the old period ends two ticks later, the new one one |
| `ticks_us` | 16 counts per ms, 32 µs before the wrap | `NeverBehind`: what is returned is a time between the begin of the call and a millisecond after its end: no tick is lost |
| `pwm` | 3 PWMs, 2 slots, 2 pins, 3 ticks per period | `PoolExact`, `PlainPinsHeld`; `OpenDrain`: a line of SoftI2C is never driven high, whatever the handler does between its two steps; `DutyAccurate`: a PWM whose pin nobody else touches shows, also between the ticks, the share its duty asks for, to within one tick and one for each write to another pin that a tick has hit |
| `irq` | 2 pins, 2 handlers, queue of 1 | `CallableOnly`, `ListensIffHandled`, `WantedCaught` (single triggers), `OwnEdges`. An edge asked for is never masked, but its callback is lost if the queue is full |
| `flash` | 8 bytes, 3 blocks of 2 bytes, every legal and the first illegal block | `BlockDevice` (refinement of `BlockDev`), `FirmwareKept` |
| `flash_wrap` | block -1 | *violation*: the range check wraps and the firmware is overwritten |
| `i2c` | one slave, reads of 0 to 3 bytes, writes of up to three buffers | `Transferred`, `BusReleased`, `Returns` |
| `soc` | two data values, two SPI settings, two ADC channels, DMA to and from the wrapper | `TTOwned`: while SPI is not used, the design's inputs are exactly what the calls of `tt.py` and the words of a DMA copy asked for; `SendClocks`: a `send` is one rising edge that sees its data, unless the clock was left high |
| `board` | 2 cycles per ms, words of 8, `ticks_ms` modulo 4, timeouts of 2 and 5 ms, delays of 2 ms and none | `LostFromTables`: a callback about an object of a lost heap is only queued while a table of the port holds such an object; what handlers queue while the new heap is set up is dropped; `NoEarlyBite`: the watchdog is never early; `SleepsItsTime`: a sleep neither returns early nor waits for an interrupt after its end; `LockupEnds`: with the watchdog armed a lockup ends in a fresh REPL; `SleepEnds`; `RawReached`: ctrl-A reaches the raw REPL, through the soft reboot it causes |
| `board_reboot` | the same | *violation* of `HeapSafe`: after a soft reboot with a running timer, the new session's queue gets a callback with an object of the heap that is gone |

### Bounds and why they are enough

* Slots and objects. The pools have 4 and 8 slots; 2 slots and 3 objects are the
  smallest instance in which an object can find the pool full, find a free slot
  before and after its own, and be searched for while another moves.
* `TickMod`, `Word`. The 32-bit counters only enter through differences modulo
  their range; small moduli make every run wrap, and `TickMod - 1` is the
  longest period.
* `MaxPreempt = 1`. A call of `init` is a few dozen instructions, a tick comes
  every 27000 cycles; two ticks in one call do not happen without an
  interpreter in between. The bound is a parameter: the theorems about the pool hold for
  every value, those about the timing for any that leaves the counter unwrapped.
* `Ticks`: 2 counts per µs and 8 µs per ms keep the two conversions of the code
  apart; `MaxCall` (10 counts, less than a period) bounds the length of a call. The
  theorems take any bound, calls of several periods included, that is over before
  the microseconds repeat (`TicksAssumption`).
  No handler and no masked section lasts a whole millisecond, so that a tick is
  never lost in the NVIC.
* `Pwm`: a period of 3 ticks against a duty range of 4, so that the division
  truncates; duties of none, three quarters and (from `make_new`) half of the range, so that the
  thresholds are 0, 1 and 2. The run's VIEW leaves out what decides neither a step nor a property:
  the fields of objects that are not allocated, and the history of PWMs that are not steady.
* `Flash`: blocks of 2 bytes, buffers of 0 to 3 bytes, all offsets: requests
  end in, at and beyond the last byte of the device. `Word` leaves room above
  the flash, as in the memory map.
* `I2c`: buffers of 0, 1, 2 and 3 bytes, empty buffers between others. MicroPython's
  `machine.I2C` reads into one buffer and writes from several, and so do the
  runs. `Word` in this run is 2^30, since TLC's integers have 32 bits; the
  frequencies are 1 Hz, which overflows the prescaler's 16 bits, 100 Hz, and 6 MHz, where
  the quotient is 0 and the subtraction of 1 wraps.
  After the first timeout the model stops recording the bytes exchanged
  (`clean`), or the history would grow for ever.
* `Soc`: one data value with bits set in both halves and one without; `CTRL`
  settings with the bits for polarity, phase and bit order clear and set; the
  lowest and the highest ADC channel. Calls do not nest: a callback that runs in the middle of
  `set_clock` and calls it as well is left out, as is the reset counter of the fabric.
* `TimerReinit`: the counter modulo 8 and periods up to 4, so that a mixture of two configurations
  has a time of its own and nothing wraps.
* `Board`: one timeout fits a word in cycles and one does not; `since` stops at
  `Word`. A delay of 2 ms and callbacks that overrun it by `MaxLag = 1` tick
  reach every difference `ticks_ms` modulo 4 can have, and the counter wraps
  in most sleeps. `MaxLag` bounds callbacks that run in a sleep: one that ran
  as long as `ticks_ms` takes to wrap would make the sleep start over.
* Symmetry is used in runs of invariants and action properties, over timers,
  PWMs, pins and handlers, which the models never order. `timer_refines`,
  `i2c` and `board` check liveness without symmetry.

### Fairness

`timer_refines` assumes weak fairness of the handler (the SysTick counter is free
running and its exception is never masked for long) and of the steps that end a
call once begun (`Finish`: straight-line code that a 1 kHz handler cannot
starve). It assumes nothing about what the script calls. `i2c` assumes weak
fairness of the driver's own steps, which are those of a running CPU, and none
of the controller: the slave may hold the clock for ever. `Timeout` is part of
the driver because `i2c_wait` counts down at each poll. `board` assumes that the
oscillator runs and that the processor executes boot and the loop of
`lightsleep` (`WF_vars(Program)`). The fairness of the clock is strong:
`Clock` is disabled in the steps that take no cycle, such as `check`, and
weak fairness would let a program that passes through them for ever stop time.
Nothing is assumed of interrupts, scripts or callbacks: pins and TIMER1 may
wake a sleep at any time or never.

### Deadlock

Checked in every run: no model can stop.

## 4. What is proved

TLAPS proves, for every value of the constants:

| Theorem | Statement | Module |
|---|---|---|
| `InvariantHolds` | `Spec => []IInv` | `TimerProofs` |
| `TypeCorrect` | `Spec => []TypeOK` | |
| `NeverTwiceInPool` | `Spec => []PoolInjective` | |
| `ActiveTimersRegistered` | `Spec => []ActiveRegistered` | |
| `PoolNeverDangles` | `Spec => []PoolAllocated` | |
| `CallsConsistent` | `Spec => []CallConsistent` | |
| `TimingInvariant` | `InOrder => (Spec => []TimingInv)` | |
| `ShotsOnTime` | `InOrder => (Spec => PreciseShot)` | |
| `ImplementsTimer` | `InOrder => (Spec => AbstractSpec)` | |
| `PwmInvariant` | `Spec => []PwmInv` | `PwmProofs` |
| `PwmTypeCorrect` | `Spec => []TypeOK` | |
| `PoolHoldsActive` | `Spec => []PoolExact` | |
| `PlainPinsKeepLevel` | `Spec => []PlainPinsHeld` | |
| `LinesNeverHigh` | `Spec => []OpenDrain` | |
| `DutyIsAccurate` | `WaveSpec => []DutyAccurate` | |
| `IrqInvariant` | `Spec => []IrqInv` | `PinIrqProofs` |
| `IrqTypeCorrect` | `Spec => []TypeOK` | |
| `OnlyCallablesScheduled` | `Spec => []CallableOnly` | |
| `HandledIffEnabled` | `Spec => []ListensIffHandled` | |
| `EdgeInvariant` | `Spec => []EdgeInv` | |
| `HandlersAreTold` | `3 \notin Triggers => (Spec => []WantedCaught)` | |
| `EdgesAreOwn` | `Spec => OwnEdges` | |
| `BoardTypeCorrect` | `Spec => []TypeOK` | `BoardProofs` |
| `LostOnlyFromTables` | `Spec => []LostFromTables` | |
| `NoEarlyBites` | `Spec => NoEarlyBite` | |
| `SleepsRight` | `Spec => SleepsItsTime` | |
| `FlashInvariant` | `NoWrap => (Spec => []FlashInv)` | `FlashProofs` |
| `FlashTypeCorrect` | `NoWrap => (Spec => []TypeOK)` | |
| `FirmwareSafe` | `NoWrap => (Spec => []FirmwareKept)` | |
| `IsBlockDevice` | `NoWrap => (Spec => BlockDevice)` | |
| `TicksInvariant` | `Spec => []TicksInv` | `TicksProofs` |
| `TypeCorrect` | `Spec => []TypeOK` | |
| `NeverIsBehind` | `Spec => NeverBehind` | |
| `I2cInvariant` | `Spec => []I2cInv` | `I2cProofs` |
| `TypeCorrect` | `Spec => []TypeOK` | |
| `TransferIsComplete` | `Spec => []Transferred` | |
| `BusIsReleased` | `Spec => []BusReleased` | |
| `SocInvariant` | `Spec => []SocInv` | `SocProofs` |
| `TypeCorrect` | `Spec => []TypeOK` | |
| `WrapperIsOwned` | `Spec => []TTOwned` | |
| `SendIsOneClock` | `Spec => []SendClocks` | |

Assumptions on constants: `TimerAssumption`, `PwmAssumption`, `PinIrqAssumption` (the null
pointer is no object, `None` no handler, there is a pin, bounds are naturals, arguments fit their
words), `SchedDepthAssumption`, `BoardAssumption` (a delay and the overrun of its callbacks fit
`ticks_ms`), `FlashAssumption` (the memory map: the chip ends within the address
space, the filesystem is a whole number of blocks), `RequestAssumption` (no
request is the value for none), `TicksAssumption` (a millisecond has at least two
microseconds, a call is over before the microseconds repeat, which takes 71 minutes),
`I2cAssumption` (MicroPython reads into one buffer; five times a frequency is not 0 modulo
the word, 5 being odd), `SocAssumption` (values are bytes, settings have the bits of their
registers). In `PwmAssumption` a full duty times the resolution (1024 times 100) stays below the word. TLC evaluates them in the runs. Some theorems
state a hypothesis besides, because the code is only right under it:

* `InOrder`: the stores of `init` keep their order, scripts `deinit` a running
  timer before they `init` it again, and a call is hit by fewer ticks than the
  counter has values. Without the second, `timer_reinit`
  shows a shot that nobody asked for.
* `NoWrap`: for no request does the sum of offset and length wrap. Without it,
  `flash_wrap` is the counterexample.
* `3 \notin Triggers`: nobody asks for both edges, which `irq` turns into
  rising only (section 5).

**Timer.** The theorems of `TimerProofs` cover all numbers of timers and slots, all periods, any
tick range, any `MaxPreempt`, both store orders, with and without `init` of
running timers. The argument is one inductive invariant, `IInv`. The pool invariants alone are
not inductive: the store of a slot happens steps after the search that chose
it, so that in an arbitrary state satisfying them the timer could be in the
pool already when the slot is stored. `CallConsistent` carries what the search
established: a slot is only stored for an unregistered timer while a slot is
free, only cleared for a registered one, and whenever `active` is set or about
to be set the timer has a slot or will get one in the same segment. The handler
never writes the pool, so it cannot invalidate this. The proof has one lemma
per group of actions and one step per conjunct of `IInv`; two lemmas about the
pool (what filling the first empty slot and clearing a slot do) are used for
`make_new`, `init` and `deinit`.

**Timing.** `TimingInv` extends `IInv`. It says how old a timer may be: outside the
handler less than its period, or armed so late that it fires in the next tick; during a
pass of the handler that has still to reach it, one tick more. Ages are
differences modulo the range of the counter, so that each step needs that an
age plus one tick does not wrap; `TickElapsed` is that arithmetic. `ArmsInOrder`
follows `init`: up to its last store the timer is inactive, with the fields
stored so far, which is where the order of the stores and the `deinit` before a
second `init` are needed. `PreciseShot` then reads off `TimingInv`, and the
refinement maps every step to a step of `AbstractTimer` or a stutter: the
store of `active` is the abstract start, the iterations of a pass its shots.

**Pwm.** `PoolExact` is inductive given the types: `init` fills the PWM's own slot or
one that is free, and `deinit`, which clears one slot, clears all there are.
`PlainPinsHeld` is not: a pin write loads the register, a tick may come, and
the store puts the old bits back. `LoadedHeld` adds that what was loaded is
still right for every pin without PWM, which holds because the tick only
touches pins of timers in the pool, and by `PoolExact` these are the active ones
(lemma `DrivenPins`).
`OpenDrain` is proved from `LineInv`: in the middle of any read-modify-write the
bits loaded for the lines are those in the register, no line is being written
high, and the pin about to become an output is low unless a PWM drives it.
`DutyAccurate` is about `PwmWave`, which adds a history to `Pwm` and takes nothing away
(`WaveSpec` implies `Spec`, so that what is proved of `Pwm` can be used). It sums over a period,
but the sum need not be computed: `SteadyInv` says that an undisturbed PWM is alone on its pin and has
been high for some time in no more ticks of this period than lie below its threshold
(`HighSoFar`) and one for each write that a tick has hit, and the same of low; each tick preserves this.
`LateInv` is why the stores of other pins do: what a write has loaded is what is in the register
until a tick comes. At the end of the period the count is the threshold, and that
is the quotient of the duty (`ThresholdInv`), so that the bounds are those of a division.

**PinIrq.** `CallStage` follows the call under way through its stores: which are
left, and what handler, `INTEN` and the NVIC's bit are by then. `NoNullEnabled` says
that a pin whose interrupt is enabled in the NVIC has had a handler stored; the
handler itself tests only for `None`. Edges may come anywhere. `EdgeInv` adds what each
edge that waits or may come is worth: outside the first stores of an `irq` on that pin (`Turning`),
the settings catch nothing the handler did not ask for, and a waiting interrupt
was caught for one it did (`Fits`); what the stores have settled so far is what
the call asked for (`Settled`); and between calls nothing asked for is masked
(`Serves`). The stores that change the settings commit only while no interrupt of the pin waits
(one that waits is taken first), and this is why a waiting edge keeps its meaning.

**Board.** `LostFromTables` needs one fact more (`LostInv`): a pin that has a handler is in `pin_obj`,
since `irq` is called on it. `gc_init` makes everything old, the queue included, which is why the
invariant excepts the step before `mp_init`; `mp_init` drops the queue; and what a handler posts
later is as old as the oldest object of its table (`PostOld`), which no script can remove.
`DogInv` relates the watchdog's counter to the history: what has
passed and what is left together reach the timeout asked for, which a
reload, a feed and a raised interrupt preserve. `SleepInv` holds through the
loop of `lightsleep`: the `wfi` starts before the delay is over or within the
tick that ended it.

**Flash.** `StoredSoFar` compares the memory with the copy taken at the call: the
bytes of the target that `memcpy` has reached hold the data, all others what
they held. With `NoWrap` the target lies in the filesystem, so that `FirmwareKept`
follows; a `Return` finds the whole target stored and a `Reset` a part of it, and both
are steps of `BlockDev`.

**Ticks.** `NeverBehind` compares what six steps have put together from three moving
registers with a history of the true time. `ClockInv` says that the counter, `ticks_ms`
and the exception that waits are together that time, modulo the range of the
microseconds, and that COUNTFLAG is set while the exception waits unless the call has just
read it. `CallInv` bounds how long a call has taken: to `MaxCall` come at most two counts
for each line, its own and the handler's (`Weight` charges for the exception that waits).
`ReadInv` says of each line what its locals are worth: what the counter and the
milliseconds read so far come to, once COUNTFLAG has been looked at, is a time of
this call or one millisecond after. The quotients of `Sum` fit because a period is a
whole number of microseconds.

**I2c.** The sums of buffers are cardinalities of the sets of their bytes, so that
no induction over a list of buffers is needed: taking a byte or leaving an empty buffer changes
the set in a way the library's facts about finite sets cover. `AddrInv`, `ByteInv` and `EndInv`
follow a transfer that has not timed out. In the middle, the bytes counted, the
one under way and those left in the buffers are those of the call; what the
slave took, or the driver stored, are the first of them in order; and a
slave that is read goes on driving the bus up to the byte it is NACKed, which
is the last. At the end what is left to do is to free the bus, if it is to be freed.
`BusReleased` holds because the STOP comes when the slave does not drive the bus.

**Soc.** A call is a list of accesses, and the invariants speak of the ones still to come.
`Plan` says that they lead to the registers asked for: a write of a data register stores
what was asked for, a change of the clock follows a read of `ctrl`, and the last one leaves the level asked for. `OwnInv`
adds that a register no access changes any more has its value already, that the bits of
`ctrl` that the clock's read-modify-write does not touch have theirs unless all are stored, and
that what it has read is `ctrl` still. When no access is left, that is `TTOwned`. `EdgeInv`
(one access of a call at most raises the clock, and not after an edge has come) holds
for every call, those of SPI included. `SendPlan` orders the accesses of `send`: inputs, then
the edge, then the read of the output.

Model-checked only: the liveness properties `OneShotEnds`, `PeriodicRepeats`, `Returns`, `LockupEnds`,
`SleepEnds` and `RawReached`, since liveness under fairness and `ENABLED` are
out of the prover's reach, and the three violated properties, which are not theorems. Every
invariant and every action property of a passing run is a theorem, some of them under the hypotheses
above. Inductions over data are out of reach as well: no definition is recursive or folds
a list, and what would have been a sum over buffers is a cardinality (`I2c`).

## 5. Where the code and its documents disagree

The three violated runs above (`timer_reinit`, `flash_wrap`, `board_reboot`), each a
finding in `PROJECT.json`. Seen while modelling, without a run of their own:

* All PWMs program the same reload register (`pwm.c:33`), so that setting up or
  retuning one changes the frequency of the others, though the comment above
  it speaks of one PWM's frequency.
* `irq` with the trigger that `pin.c:148` calls "Rising | Falling (default)" sets
  the polarity to rising only (`pin.c:176`). `WantedCaught` is checked for the
  triggers 1 and 2.
* `SPI_BASE` is 0x40002400 (`spi.h:7`), which the SoC decodes as the slot of the Tiny Tapeout wrapper
  (`src/M3_FPGA_INTEGRATIONS.md:47` says so too), while `src/src/fpga/bitstream/tang_nano_4k_m3.md:22`
  gives the SPI master 0x40002200. `machine.SPI()` therefore stores its settings to the design's inputs and to
  the wrapper's `ctrl`, with a clock edge. `TTOwned` and `SendClocks` speak of scripts that leave SPI alone.
* No slave of the SoC ever answers the SPI driver's status polls (`spi.c:34`): what
  `STATUS` reads as is the wrapper's `uio_oe`, 0 for the echo design, and a transfer never returns.
* A full scheduler queue drops callbacks (`timer.c:30`); a one-shot's is gone for good.
* The write of a plain pin stores back the bits it loaded for all other pins
  (`pin.c:85`): if a tick comes between its load and its store, a PWM pin shows the level of the
  previous tick until the next. `DutyAccurate` counts this: each such write may cost a tick.
* `mp_hal_ticks_us` looks at COUNTFLAG, which the handler leaves set, so that the
  first call in a millisecond may count that millisecond twice; the clock is up
  to 1 ms ahead and the next call may return a smaller value. `NeverBehind` allows for this.
* Between the first two stores of an `irq` that replaces a handler, an edge
  of the old trigger reaches the new handler. `OwnEdges` excepts the window.
* `main.c:57` leaves the REPL loop when the friendly REPL returns 0, which is what
  it does when ctrl-A asks for the raw REPL, not on ctrl-D: ctrl-A soft-reboots
  the board and a ctrl-D of the friendly REPL does not, though
  `src/definitions/Porting_MicroPython.md:54` expects the REPL to exit on ctrl-D.
  `RawReached` shows that the raw REPL is reached all the same.
* A soft reboot (`main.c:64`) keeps `active_timers`, `active_pwm`, `pin_irq_handler`
  and `pin_obj`, which point into the heap that `gc_init` gives away, and the
  interrupts that follow them, though `src/M3_MICROPYTHON.md:29` speaks of "Automatic heap
  management and object lifecycle tracking". `board_reboot` shows the callback of a lost timer in the new
  session's queue. A session that has used a `Pin` cannot avoid it: nothing empties `pin_obj`.
  `LostFromTables` says that nothing else is to blame, and `LockupEnds` that the watchdog recovers.
* `writeblocks` and the erase store to the mapped flash with `memcpy` and `memset`, which changes
  it only in simulation, as `flash.c:71` and `flash.c:96` say; real hardware needs the flash controller's
  programming commands, which the port does not have. `Flash` models what the code does in simulation, and
  what is shown of it holds there.
* The watchdog resets when its counter reaches 0 for the second time, so after twice the
  timeout; after the first it raises its interrupt, and whether that reaches
  the processor as NMI (and so `Default_Handler`, which loops) is in no
  document of the board: `Bark` allows both. `timeout * 27000` wraps above
  159 s (`wdt.c:27`), and `NoEarlyBite` speaks of timeouts that fit.
* `mp_hal_pin_open_drain` is empty (`mphalport.h:58`), while its comment says that
  an ioctl handles it; no ioctl does. `OpenDrain` holds since SoftI2C only ever uses the
  calls that pull low and release.
* No slave of the SoC answers at the DMA's registers (`dma.c`), so that DONE is never read
  as set; the example of `FPGA_BRIDGE_USAGE.md:58` copies to `0x40002C00`, which is the
  address `dma.c` uses for those registers.
* `read_u16` reads the result right after it has started the conversion (`adc.c:57`).
* `freq * 100` wraps for frequencies above 42.9 MHz (`pwm.c:33`).
* A one-shot that has fired keeps its slot until `deinit` (`timer.c:33`), so that
  as many expired one-shots as there are slots fill the pool.
* With the PWM pool full, `init` returns as if it had worked (`pwm.c:125`).
* After a timeout `i2c_transfer` returns without a STOP (`i2c.c:30`); a read of
  no bytes ends with a STOP while the slave drives the bus. `BusReleased`
  speaks of neither.
* `send` gives no clock edge if the script has left the clock high; `SendClocks`
  says so.

## 6. Not modelled, and the plan

Left to do, in order of importance:

1. `Soc` with designs that have state, callbacks that nest calls of `tt.py`, and
   the SPI driver against a controller that answers, once the tree has one.
2. A finer `Sched`, with the queue operations as several steps, for the atomic
   sections that `mpconfigport.h` leaves undefined: the steps are those of
   MicroPython's scheduler, which is not in the tree.
3. Proofs: that the callbacks the scheduler's queue drops are the only ones a
   script misses, once `Sched` is finer; `LostFromTables` composed with `Timer`, `Pwm` and
   `PinIrq` instead of a summary of their tables.

Left out for good:

* `machine.RTC` (`rtc.c`): `datetime` passes values between two registers and the
  calendar functions of MicroPython's `timeutils`; the port keeps no state of
  its own there, and nothing else in it reads the clock.
* The UART console: busy waits on two status bits, without a buffer or an interrupt.
* `gc_collect`'s scan of the stack (`main.c:109`), which leaves out the registers:
  what that loses depends on the compiler's register allocation.
* Print methods, argument parsing, constant tables, the vendor's flash and PSRAM
  bridges, the examples and vendor files.
