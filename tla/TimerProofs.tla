---------------------------- MODULE TimerProofs ----------------------------
(***************************************************************************)
(* The pool of timer.c is safe for every number of timers, slots, ticks    *)
(* and preemptions, for either order of stores and with or without init of *)
(* running timers.                                                         *)
(***************************************************************************)
EXTENDS Timer, TLAPS, SequenceTheorems, WellFoundedInduction

(* A nonempty set of natural numbers has a least element.                  *)
LEMMA LeastExists ==
  ASSUME NEW S \in SUBSET Nat, S # {}
  PROVE  \E x \in S : \A y \in S : x <= y
<1>. DEFINE R == {ss \in Nat \X Nat : ss[1] < ss[2]}
<1>1. IsWellFoundedOn(R, Nat)
  BY NatLessThanWellFounded DEF OpToRel
<1>2. PICK x \in S : \A y \in S : <<y, x>> \notin R
  <2>. HIDE DEF R
  <2>. QED BY <1>1, WFMin
<1>3. \A y \in S : ~(y < x)
  BY <1>2
<1>. QED
  BY <1>3

(* The search of make_new and init returns a slot that is NULL whenever    *)
(* there is one.                                                           *)
LEMMA FirstEmptyIsEmpty ==
  ASSUME Empty # {}
  PROVE  FirstEmpty \in Slots /\ slots[FirstEmpty] = NULL
<1>1. Empty \in SUBSET Nat
  BY TimerAssumption DEF Slots, Empty
<1>2. \E x \in Empty : \A y \in Empty : x <= y
  BY <1>1, LeastExists
<1>3. FirstEmpty \in Empty
  BY <1>2 DEF FirstEmpty
<1>. QED
  BY <1>3 DEF Empty

(* The loop of deinit stops at a slot that holds the timer.                *)
LEMMA SlotOfHolds ==
  ASSUME NEW t, InPool(t)
  PROVE  SlotOf(t) \in Slots /\ slots[SlotOf(t)] = t
<1>. DEFINE Held == {i \in Slots : slots[i] = t}
<1>1. Held \in SUBSET Nat /\ Held # {}
  BY TimerAssumption DEF Slots, InPool
<1>2. \E x \in Held : \A y \in Held : x <= y
  BY <1>1, LeastExists
<1>3. \E x \in Slots : slots[x] = t /\ \A y \in Slots : slots[y] = t => x <= y
  BY <1>2
<1>. QED
  BY <1>3 DEF SlotOf

(* Every store leaves a well-formed object.                                *)
LEMMA StoredType ==
  ASSUME TypeOK, NEW o \in Obj, NEW s \in Stores \ {"slot", "unslot"}
  PROVE  Stored(o, s) \in Obj
BY DEF TypeOK, Stored, Stores, InitArgs, Obj, Vals

(* The handler leaves a well-formed object and a queue within its depth.   *)
LEMMA FireType ==
  ASSUME TypeOK, NEW t \in Timers
  PROVE  /\ Rearmed(obj[t]) \in Obj
         /\ Rearmed(obj[t]).active => obj[t].active
         /\ Posted(queue, t) \in Seq(Entries) /\ Len(Posted(queue, t)) <= SchedDepth
<1>1. obj[t] \in Obj /\ ticks \in 0 .. TickMod - 1
  BY DEF TypeOK
<1>2. Rearmed(obj[t]) \in Obj /\ (Rearmed(obj[t]).active => obj[t].active)
  BY <1>1 DEF Rearmed, Obj
<1>3. <<obj[t].callback, t>> \in Entries
  BY <1>1 DEF Obj, Entries
<1>4. CASE obj[t].callback = None \/ SchedFull(queue)
  BY <1>2, <1>4 DEF Posted, Schedule, TypeOK
<1>5. CASE ~(obj[t].callback = None \/ SchedFull(queue))
  <2>1. Posted(queue, t) = Append(queue, <<obj[t].callback, t>>)
    BY <1>5 DEF Posted, Schedule
  <2>2. queue \in Seq(Entries) /\ Len(queue) < SchedDepth
    BY <1>5, SchedDepthAssumption DEF TypeOK, SchedFull
  <2>. QED
    BY <1>2, <1>3, <2>1, <2>2, AppendProperties, SchedDepthAssumption
<1>. QED
  BY <1>4, <1>5

(* ticks_ms stays a machine word. *)
LEMMA TickWraps ==
  ASSUME NEW n \in 0 .. TickMod - 1
  PROVE  (n + 1) % TickMod \in 0 .. TickMod - 1
BY TimerAssumption

LEMMA InitIInv == Init => IInv
<1>. SUFFICES ASSUME Init PROVE IInv
  OBVIOUS
<1>. USE TimerAssumption, SchedDepthAssumption
<1>1. TypeOK
  BY DEF Init, TypeOK, FreshVals, FreshObj, Vals, Obj, Modes, Stores
<1>2. PoolInjective /\ PoolAllocated
  BY DEF Init, PoolInjective, PoolAllocated
<1>3. ActiveRegistered
  BY DEF Init, ActiveRegistered, FreshObj
<1>4. CallConsistent
  BY DEF Init, CallConsistent
<1>. QED
  BY <1>1, <1>2, <1>3, <1>4 DEF IInv

(* The script's calls of make_new and the collector. *)
LEMMA MakeNewIInv ==
  ASSUME IInv, NEW t \in Timers, MakeNew(t)
  PROVE  IInv'
<1>. USE TimerAssumption DEF IInv, MainIdle, progress
<1>1. FirstEmpty \in Slots /\ slots[FirstEmpty] = NULL
  BY FirstEmptyIsEmpty DEF MakeNew
<1>2. FreshObj \in Obj /\ ~FreshObj.active
  BY DEF FreshObj, Obj, Modes
<1>3. TypeOK'
  BY <1>1, <1>2 DEF MakeNew, TypeOK
<1>4. PoolInjective' /\ PoolAllocated'
  BY <1>1 DEF MakeNew, PoolInjective, PoolAllocated, TypeOK
<1>5. ActiveRegistered'
  <2>. SUFFICES ASSUME NEW u \in Timers, obj'[u].active
                PROVE  InPool(u)'
    BY DEF ActiveRegistered
  <2>1. u # t /\ obj[u].active
    BY <1>2 DEF MakeNew, TypeOK
  <2>2. InPool(u)
    BY <2>1 DEF ActiveRegistered, CallConsistent, MakeNew
  <2>3. PICK i \in Slots : slots[i] = u
    BY <2>2 DEF InPool
  <2>4. slots'[i] = u
    BY <2>3, <1>1 DEF MakeNew, TypeOK
  <2>. QED BY <2>4 DEF InPool
<1>6. CallConsistent'
  BY DEF MakeNew, CallConsistent, TypeOK
<1>. QED
  BY <1>3, <1>4, <1>5, <1>6

LEMMA CollectIInv ==
  ASSUME IInv, NEW t \in Timers, Collect(t)
  PROVE  IInv'
<1>. USE TimerAssumption DEF IInv, MainIdle, progress
<1>1. FreshObj \in Obj /\ ~FreshObj.active
  BY DEF FreshObj, Obj, Modes
<1>2. TypeOK'
  BY <1>1 DEF Collect, TypeOK
<1>3. PoolInjective' /\ PoolAllocated'
  BY DEF Collect, PoolInjective, PoolAllocated, InPool
<1>4. ActiveRegistered'
  BY <1>1 DEF Collect, ActiveRegistered, TypeOK, InPool
<1>5. CallConsistent'
  BY DEF Collect, CallConsistent, TypeOK
<1>. QED
  BY <1>2, <1>3, <1>4, <1>5

(* init and deinit begin. *)
LEMMA InitCallIInv ==
  ASSUME IInv, NEW t \in Timers, NEW v \in Vals, InitCall(t, v)
  PROVE  IInv'
<1>. USE DEF IInv, InitCall, MainIdle
<1>1. TypeOK'
  BY DEF TypeOK, Stores
<1>2. PoolInjective' /\ PoolAllocated'
  BY DEF PoolInjective, PoolAllocated
<1>3. obj[t].active => InPool(t)
  <2>1. self # t
    BY TimerAssumption DEF CallConsistent
  <2>. QED
    BY <2>1 DEF ActiveRegistered
<1>4. ActiveRegistered'
  BY TimerAssumption DEF ActiveRegistered, CallConsistent, InPool
<1>5. CallConsistent'
  BY <1>3, TimerAssumption DEF CallConsistent, InPool, InitArgs
<1>. QED
  BY <1>1, <1>2, <1>4, <1>5

LEMMA DeinitCallIInv ==
  ASSUME IInv, NEW t \in Timers, DeinitCall(t)
  PROVE  IInv'
<1>. USE DEF IInv, DeinitCall, MainIdle
<1>1. TypeOK'
  BY DEF TypeOK, Stores
<1>2. PoolInjective' /\ PoolAllocated'
  BY DEF PoolInjective, PoolAllocated
<1>3. ActiveRegistered'
  BY TimerAssumption DEF ActiveRegistered, CallConsistent, InPool
<1>4. CallConsistent'
  BY TimerAssumption DEF CallConsistent, InPool
<1>. QED
  BY <1>1, <1>2, <1>3, <1>4

(* The search of the pool in init: the slot to fill is decided here and    *)
(* stored later, with the handler in between.                              *)
LEMMA ReadTicksIInv ==
  ASSUME IInv, ReadTicks
  PROVE  IInv'
<1>. USE DEF IInv, ReadTicks
<1>1. StoresToArm(self) \subseteq {"last_tick", "slot", "active"}
  BY DEF StoresToArm
<1>2. TypeOK'
  BY <1>1 DEF TypeOK, Stores
<1>3. PoolInjective' /\ PoolAllocated'
  BY DEF PoolInjective, PoolAllocated
<1>4. ActiveRegistered'
  BY DEF ActiveRegistered, InPool
<1>5. CallConsistent'
  BY <1>1 DEF CallConsistent, StoresToArm, InPool, Empty
<1>. QED
  BY <1>2, <1>3, <1>4, <1>5

(* A store to the object of the timer the call is about.                   *)
LEMMA StoreFieldIInv ==
  ASSUME IInv, NEW s \in Stores, StoreField(s)
  PROVE  IInv'
<1>. USE DEF IInv, StoreField, Commits
<1>1. self \in Timers /\ obj[self] \in Obj
  BY DEF CallConsistent, TypeOK
<1>2. Stored(obj[self], s) \in Obj
  BY <1>1, StoredType
<1>3. TypeOK'
  BY <1>1, <1>2 DEF TypeOK
<1>4. PoolInjective' /\ PoolAllocated'
  BY DEF PoolInjective, PoolAllocated
<1>5. obj'[self].active = IF s = "active" THEN TRUE
                         ELSE IF s = "stop" THEN FALSE ELSE obj[self].active
  BY <1>1 DEF Stored, Stores, InitArgs, TypeOK, Obj
<1>6. ActiveRegistered'
  BY <1>1 DEF ActiveRegistered, InPool, TypeOK
<1>7. CallConsistent'
  BY <1>1, <1>5 DEF CallConsistent, InPool, Empty, InitArgs
<1>. QED
  BY <1>3, <1>4, <1>6, <1>7

(* The two stores to the pool. *)
LEMMA StoreSlotIInv ==
  ASSUME IInv, StoreSlot
  PROVE  IInv'
<1>. USE DEF IInv, StoreSlot, Commits
<1>1. self \in Timers /\ self \in made /\ Empty # {} /\ ~InPool(self) /\ pc = "arm"
  BY DEF CallConsistent, TypeOK, InitArgs
<1>2. FirstEmpty \in Slots /\ slots[FirstEmpty] = NULL
  BY <1>1, FirstEmptyIsEmpty
<1>3. slots' \in [Slots -> Timers \cup {NULL}] /\ slots'[FirstEmpty] = self
  BY <1>1, <1>2 DEF TypeOK
<1>4. TypeOK'
  BY <1>3 DEF TypeOK
<1>5. PoolInjective' /\ PoolAllocated'
  BY <1>1, <1>2 DEF PoolInjective, PoolAllocated, InPool, TypeOK
<1>6. \A u \in Timers : InPool(u) => InPool(u)'
  BY <1>2, TimerAssumption DEF InPool, TypeOK
<1>7. InPool(self)'
  BY <1>2, <1>3 DEF InPool
<1>8. ActiveRegistered'
  BY <1>6 DEF ActiveRegistered
<1>9. CallConsistent'
  BY <1>1, <1>7 DEF CallConsistent
<1>. QED
  BY <1>4, <1>5, <1>8, <1>9

LEMMA ClearSlotIInv ==
  ASSUME IInv, ClearSlot
  PROVE  IInv'
<1>. USE DEF IInv, ClearSlot, Commits
<1>1. self \in Timers /\ InPool(self) /\ pc = "deinit"
  BY DEF CallConsistent, TypeOK, InitArgs
<1>2. SlotOf(self) \in Slots /\ slots[SlotOf(self)] = self
  BY <1>1, SlotOfHolds
<1>3. TypeOK'
  BY <1>2 DEF TypeOK
<1>4. PoolInjective' /\ PoolAllocated'
  BY <1>2 DEF PoolInjective, PoolAllocated, TypeOK
<1>5. \A u \in Timers : u # self /\ InPool(u) => InPool(u)'
  BY <1>2 DEF InPool, TypeOK
<1>6. ActiveRegistered'
  BY <1>5 DEF ActiveRegistered
<1>7. CallConsistent'
  BY <1>1 DEF CallConsistent
<1>. QED
  BY <1>3, <1>4, <1>6, <1>7

(* The call returns: what it was about to restore now holds. *)
LEMMA ReturnIInv ==
  ASSUME IInv, Return
  PROVE  IInv'
<1>. USE DEF IInv, Return
<1>1. TypeOK'
  BY TimerAssumption DEF TypeOK, Vals, FreshVals, Modes
<1>2. PoolInjective' /\ PoolAllocated'
  BY DEF PoolInjective, PoolAllocated
<1>3. obj[self].active => InPool(self)
  BY DEF CallConsistent
<1>4. ActiveRegistered'
  BY <1>3 DEF ActiveRegistered, InPool
<1>5. CallConsistent'
  BY TimerAssumption DEF CallConsistent
<1>. QED
  BY <1>1, <1>2, <1>4, <1>5

LEMMA RunPendingIInv ==
  ASSUME IInv, RunPending
  PROVE  IInv'
<1>. USE DEF IInv, RunPending, progress
<1>1. Tail(queue) \in Seq(Entries) /\ Len(Tail(queue)) <= SchedDepth
  BY HeadTailProperties, SchedDepthAssumption DEF TypeOK
<1>2. TypeOK'
  BY <1>1 DEF TypeOK
<1>3. PoolInjective' /\ PoolAllocated' /\ ActiveRegistered'
  BY DEF PoolInjective, PoolAllocated, ActiveRegistered, InPool
<1>4. CallConsistent'
  BY DEF CallConsistent, InPool, Empty
<1>. QED
  BY <1>2, <1>3, <1>4

(* The handler. *)
LEMMA SysTickIInv ==
  ASSUME IInv, SysTick
  PROVE  IInv'
<1>. USE DEF IInv, SysTick, progress
<1>1. ticks' \in 0 .. TickMod - 1
  BY TickWraps DEF TypeOK
<1>2. preempted' \in 0 .. MaxPreempt /\ scan' \in 0 .. MaxTimers
  BY TimerAssumption DEF TypeOK
<1>3. TypeOK'
  BY <1>1, <1>2 DEF TypeOK
<1>4. PoolInjective' /\ PoolAllocated' /\ ActiveRegistered'
  BY DEF PoolInjective, PoolAllocated, ActiveRegistered, InPool
<1>5. CallConsistent'
  BY DEF CallConsistent, InPool, Empty
<1>. QED
  BY <1>3, <1>4, <1>5

LEMMA SkipSlotIInv ==
  ASSUME IInv, SkipSlot
  PROVE  IInv'
<1>. USE DEF IInv, SkipSlot, progress
<1>1. scan' \in 0 .. MaxTimers
  BY TimerAssumption DEF TypeOK, InHandler
<1>2. TypeOK'
  BY <1>1 DEF TypeOK
<1>3. PoolInjective' /\ PoolAllocated' /\ ActiveRegistered'
  BY DEF PoolInjective, PoolAllocated, ActiveRegistered, InPool
<1>4. CallConsistent'
  BY DEF CallConsistent, InPool, Empty
<1>. QED
  BY <1>2, <1>3, <1>4

LEMMA FireIInv ==
  ASSUME IInv, NEW t \in Timers, Fire(t)
  PROVE  IInv'
<1>. USE DEF IInv, Fire, progress
<1>1. scan' \in 0 .. MaxTimers
  BY TimerAssumption DEF TypeOK, InHandler
<1>2. TypeOK'
  BY <1>1, FireType DEF TypeOK
<1>3. \A u \in Timers : obj'[u].active => obj[u].active
  BY FireType DEF TypeOK
<1>4. PoolInjective' /\ PoolAllocated'
  BY DEF PoolInjective, PoolAllocated
<1>5. ActiveRegistered'
  BY <1>3 DEF ActiveRegistered, InPool
<1>6. CallConsistent'
  <2>1. self # NULL => self \in Timers
    BY DEF TypeOK
  <2>. QED
    BY <1>3, <2>1 DEF CallConsistent, InPool, Empty
<1>. QED
  BY <1>2, <1>4, <1>5, <1>6

(* Nothing the firmware does, in either context, breaks the invariant.     *)
LEMMA NextIInv == IInv /\ [Next]_vars => IInv'
<1>. SUFFICES ASSUME IInv, [Next]_vars PROVE IInv'
  OBVIOUS
<1>1. CASE Handler
  BY <1>1, SysTickIInv, SkipSlotIInv, FireIInv DEF Handler
<1>2. CASE Finish
  BY <1>2, ReadTicksIInv, StoreSlotIInv, ClearSlotIInv, ReturnIInv, StoreFieldIInv DEF Finish
<1>3. CASE Script
  <2>1. ASSUME NEW t \in Timers, MakeNew(t) \/ Collect(t) \/ DeinitCall(t)
        PROVE  IInv'
    BY <2>1, MakeNewIInv, CollectIInv, DeinitCallIInv
  <2>2. ASSUME NEW t \in Timers, NEW p \in Periods, NEW m \in Modes,
               NEW c \in Callbacks,
               InitCall(t, [period |-> p, mode |-> m, callback |-> c])
        PROVE  IInv'
    <3>1. [period |-> p, mode |-> m, callback |-> c] \in Vals
      BY DEF Vals
    <3>. QED BY <2>2, <3>1, InitCallIInv
  <2>. QED
    BY <1>3, <2>1, <2>2, RunPendingIInv DEF Script
<1>4. CASE UNCHANGED vars
  BY <1>4 DEF IInv, vars, progress, TypeOK, PoolInjective, PoolAllocated,
              ActiveRegistered, CallConsistent, InPool, Empty
<1>. QED
  BY <1>1, <1>2, <1>3, <1>4 DEF Next

(* Every behaviour of timer.c keeps the invariant, for every number of     *)
(* timers, slots and preempting ticks.                                     *)
THEOREM InvariantHolds == Spec => []IInv
BY InitIInv, NextIInv, PTL DEF Spec

(* Types: the queue within its depth, the counter a machine word.          *)
THEOREM TypeCorrect == Spec => []TypeOK
BY InvariantHolds, PTL DEF IInv

(* No timer is ever registered in two slots.                               *)
THEOREM NeverTwiceInPool == Spec => []PoolInjective
BY InvariantHolds, PTL DEF IInv

(* A timer that reads as active outside a call on it is registered.        *)
THEOREM ActiveTimersRegistered == Spec => []ActiveRegistered
BY InvariantHolds, PTL DEF IInv

(* The pool never points to a freed object.                                *)
THEOREM PoolNeverDangles == Spec => []PoolAllocated
BY InvariantHolds, PTL DEF IInv

(* Which stores a call has left agrees with where it is and with the pool: *)
(* a slot is only stored while one is free and the timer holds none.       *)
THEOREM CallsConsistent == Spec => []CallConsistent
BY InvariantHolds, PTL DEF IInv

-----------------------------------------------------------------------------
(***************************************************************************)
(* timer.c implements AbstractTimer and fires on time, for every number of *)
(* timers and slots, all periods and any width of the tick counter, if     *)
(* stores keep their order and scripts deinit a timer before they init it  *)
(* again.                                                                  *)
(***************************************************************************)

(* What the theorems of this section assume.  A call is hit by far fewer   *)
(* ticks than the counter holds.                                           *)
InOrder == ~Reorder /\ ~ReinitActive /\ MaxPreempt + 1 < TickMod

(* The current pass of the handler has still to look at t.                 *)
Ahead(t) == \E i \in scan .. MaxTimers - 1 : slots[i] = t

(* The age at which t fires; a period of 0 is the next tick.               *)
DueAge(t) == IF obj[t].period = 0 THEN 1 ELSE obj[t].period

(* An active timer has not reached its period, or has been armed late and  *)
(* fires in the next tick; if the handler is on its way to it, it is one   *)
(* tick older.                                                             *)
InTime(t) ==
  IF Ahead(t) THEN Elapsed(t) \in 1 .. DueAge(t) + MaxPreempt
  ELSE Elapsed(t) < DueAge(t) \/ Elapsed(t) <= MaxPreempt

(* A call of init that is under way: its timer stays inactive up to its    *)
(* last store, with what has been stored by then.                          *)
ArmsInOrder ==
  /\ pc = "args" => /\ ~obj[self].active /\ vals.period \in Periods
                    /\ "period" \notin todo => obj[self].period \in Periods
  /\ pc = "arm" => /\ todo # {} => ~obj[self].active
                   /\ obj[self].period \in Periods
                   /\ (ticks - now) % TickMod <= preempted
                   /\ "active" \in todo /\ "last_tick" \notin todo => obj[self].last_tick = now

TimingInv ==
  /\ IInv /\ ArmsInOrder
  /\ \A t \in Timers : obj[t].active => InPool(t) /\ InTime(t)

-----------------------------------------------------------------------------
(* The arithmetic of the tick counter, for words of any size.              *)

LEMMA ModType ==
  ASSUME NEW a \in Int, NEW m \in Nat \ {0}
  PROVE  a % m \in 0 .. m - 1
OBVIOUS

LEMMA ModSmall ==
  ASSUME NEW m \in Nat \ {0}, NEW a \in 0 .. m - 1
  PROVE  a % m = a
OBVIOUS

LEMMA ModBelow ==
  ASSUME NEW m \in Nat \ {0}, NEW a \in -m .. -1
  PROVE  a % m = a + m
OBVIOUS

(* A tick makes the time since b one tick longer, also when the counter    *)
(* wraps.                                                                  *)
LEMMA TickElapsed ==
  ASSUME NEW m \in Nat \ {0}, NEW a \in 0 .. m - 1, NEW b \in 0 .. m - 1,
         (a - b) % m < m - 1
  PROVE  (((a + 1) % m) - b) % m = ((a - b) % m) + 1
<1>1. CASE b <= a /\ a < m - 1
  <2>1. (a + 1) % m = a + 1 /\ (a - b) % m = a - b
    BY <1>1, ModSmall
  <2>2. (a + 1 - b) % m = a + 1 - b
    BY <1>1, ModSmall
  <2>. QED BY <2>1, <2>2
<1>2. CASE b <= a /\ a = m - 1
  <2>1. (a + 1) % m = 0 /\ (a - b) % m = a - b
    BY <1>2, ModSmall
  <2>2. b > 0
    BY <1>2, <2>1
  <2>3. 0 - b \in -m .. -1
    BY <2>2
  <2>4. (0 - b) % m = m - b
    BY <2>3, ModBelow
  <2>. QED BY <1>2, <2>1, <2>4
<1>3. CASE a < b
  <2>. a - b \in -m .. -1
    BY <1>3
  <2>. a + 1 \in 0 .. m - 1
    BY <1>3
  <2>1. (a + 1) % m = a + 1 /\ (a - b) % m = a - b + m
    BY ModSmall, ModBelow
  <2>2. CASE a + 1 < b
    <3>. a + 1 - b \in -m .. -1
      BY <2>2
    <3>. QED BY <2>1, ModBelow
  <2>3. CASE a + 1 = b
    BY <1>3, <2>1, <2>3
  <2>. QED BY <1>3, <2>2, <2>3
<1>. QED
  BY <1>1, <1>2, <1>3

-----------------------------------------------------------------------------
(* Facts *)

LEMMA Params ==
  /\ TickMod \in Nat \ {0} /\ MaxTimers \in Nat \ {0} /\ MaxPreempt \in Nat
  /\ \A p \in Periods \cup {0} : p \in 0 .. TickMod - 1
BY TimerAssumption

LEMMA Objects ==
  ASSUME TypeOK, NEW t \in Timers
  PROVE  /\ obj[t].period \in Periods \cup {0} /\ obj[t].last_tick \in 0 .. TickMod - 1
         /\ obj[t].mode \in Modes /\ obj[t].callback \in Callbacks \cup {None}
         /\ obj[t].active \in BOOLEAN /\ ticks \in 0 .. TickMod - 1 /\ ticks \in Nat
BY TimerAssumption DEF TypeOK, Obj

LEMMA ElapsedType ==
  ASSUME TypeOK, NEW t \in Timers
  PROVE  Elapsed(t) \in 0 .. TickMod - 1
<1>1. ticks - obj[t].last_tick \in Int /\ TickMod \in Nat \ {0}
  BY Objects, Params
<1>. QED
  BY <1>1, ModType, Zenon DEF Elapsed

(* Outside the handler the loop index is at the end. *)
LEMMA NoneAhead ==
  ASSUME TypeOK, ~InHandler
  PROVE  scan = MaxTimers /\ \A t : ~Ahead(t)
BY Params DEF TypeOK, InHandler, Ahead

LEMMA DueAgeType ==
  ASSUME InOrder, TypeOK, NEW t \in Timers
  PROVE  DueAge(t) \in 1 .. TickMod - 1
BY Objects, Params DEF DueAge, InOrder

-----------------------------------------------------------------------------
(* What an abstract timer sees *)

ConfigMap == [t \in Timers |-> IF Armed(t) THEN Config(t) ELSE Off]
AgeMap    == [t \in Timers |-> IF Armed(t) THEN Elapsed(t) ELSE 0]

LEMMA ConfigNotOff ==
  ASSUME NEW t
  PROVE  Config(t) # Off
<1>1. "mode" \in DOMAIN Config(t) /\ "mode" \notin DOMAIN Off
  BY DEF Config, Off
<1>. QED
  BY <1>1

LEMMA ArmedActive ==
  ASSUME TimingInv, NEW t \in Timers
  PROVE  /\ Armed(t) <=> obj[t].active
         /\ ConfigMap[t] = IF obj[t].active THEN Config(t) ELSE Off
         /\ AgeMap[t] = IF obj[t].active THEN Elapsed(t) ELSE 0
         /\ ConfigMap[t] = Off <=> ~obj[t].active
<1>1. Armed(t) <=> obj[t].active
  BY DEF Armed, TimingInv
<1>. QED
  BY <1>1, ConfigNotOff DEF ConfigMap, AgeMap

LEMMA NoneUnserved ==
  ASSUME TypeOK, ~InHandler
  PROVE  Unserved = {}
BY NoneAhead DEF Unserved, Ahead

-----------------------------------------------------------------------------
(* Steps of the main thread that no armed timer notices *)

Quiet ==
  /\ ~InHandler /\ UNCHANGED <<ticks, scan, queue>>
  /\ \A t \in Timers : obj[t].active \/ obj'[t].active => obj'[t] = obj[t] /\ InPool(t)'

LEMMA QuietInv ==
  ASSUME InOrder, TimingInv, Quiet, IInv', ArmsInOrder'
  PROVE  TimingInv'
<1>1. \A t \in Timers : ~Ahead(t) /\ ~Ahead(t)'
  BY NoneAhead, Params DEF TimingInv, IInv, Quiet, Ahead
<1>2. ASSUME NEW t \in Timers, obj'[t].active
      PROVE  InPool(t)' /\ InTime(t)'
  <2>1. obj'[t] = obj[t] /\ obj[t].active /\ ticks' = ticks
    BY <1>2 DEF Quiet
  <2>2. InTime(t)
    BY <2>1 DEF TimingInv
  <2>. QED
    BY <1>1, <1>2, <2>1, <2>2 DEF Quiet, InTime, Elapsed, DueAge
<1>. QED
  BY <1>2 DEF TimingInv

LEMMA QuietStutters ==
  ASSUME TimingInv, TimingInv', Quiet
  PROVE  ConfigMap' = ConfigMap /\ AgeMap' = AgeMap /\ Unserved' = Unserved /\ queue' = queue
<1>1. \A t \in Timers : /\ obj'[t].active <=> obj[t].active
                        /\ obj[t].active => Config(t)' = Config(t) /\ Elapsed(t)' = Elapsed(t)
  BY DEF Quiet, Config, Elapsed
<1>2. \A t \in Timers : (Armed(t) <=> obj[t].active) /\ (Armed(t)' <=> obj'[t].active)
  BY DEF TimingInv, Armed
<1>3. \A t \in Timers : Armed(t) <=> Armed(t)'
  <2>. TAKE t \in Timers
  <2>. QED BY <1>1, <1>2
<1>4. ConfigMap' = ConfigMap /\ AgeMap' = AgeMap
  BY <1>1, <1>2, <1>3, Off' = Off DEF ConfigMap, AgeMap, Off
<1>5. Unserved = {} /\ Unserved' = {}
  BY NoneAhead, Params DEF TimingInv, IInv, Quiet, Unserved
<1>. QED
  BY <1>4, <1>5 DEF Quiet

-----------------------------------------------------------------------------
(* The main thread, step by step *)

(* In program order, active is the last store of init, and deinit clears   *)
(* it before the slot.                                                     *)
LEMMA StoresInOrder ==
  ASSUME InOrder, IInv, NEW s \in Stores, Commits(s)
  PROVE  /\ s = "active" => todo = {"active"}
         /\ s = "unslot" => "stop" \notin todo
<1>1. /\ Rank["last_tick"] = 4 /\ Rank["slot"] = 5 /\ Rank["active"] = 6
      /\ Rank["stop"] = 1 /\ Rank["unslot"] = 2
  BY DEF Rank
<1>2. \A r \in todo : Rank[s] <= Rank[r]
  BY DEF InOrder, Commits
<1>3. s = "active" => todo \subseteq {"last_tick", "slot", "active"}
  BY DEF IInv, CallConsistent, TypeOK, InitArgs, Commits
<1>. QED
  BY <1>1, <1>2, <1>3 DEF Commits

(* Where a call has what stores left, and on which timer.                  *)
LEMMA CallStores ==
  ASSUME IInv, NEW s \in todo
  PROVE  /\ self \in Timers /\ self # NULL
         /\ pc = "args" <=> s \in InitArgs
         /\ pc = "arm" <=> s \in {"last_tick", "slot", "active"}
         /\ pc = "deinit" <=> s \in {"stop", "unslot"}
BY DEF IInv, CallConsistent, TypeOK, InitArgs, Stores

LEMMA MakeNewQuiet ==
  ASSUME InOrder, TimingInv, NEW t \in Timers, MakeNew(t)
  PROVE  Quiet /\ ArmsInOrder'
<1>. USE DEF TimingInv, IInv, MakeNew, MainIdle
<1>1. FirstEmpty \in Slots /\ slots[FirstEmpty] = NULL
  BY FirstEmptyIsEmpty
<1>2. ~obj[t].active
  BY TimerAssumption DEF PoolAllocated, InPool, TimingInv
<1>3. obj' = [obj EXCEPT ![t] = FreshObj] /\ ~FreshObj.active /\ obj \in [Timers -> Obj]
  BY DEF FreshObj, TypeOK
<1>4. ASSUME NEW u \in Timers, obj[u].active \/ obj'[u].active
      PROVE  obj'[u] = obj[u] /\ InPool(u)'
  <2>1. u # t /\ obj'[u] = obj[u] /\ obj[u].active
    BY <1>2, <1>3, <1>4
  <2>2. PICK i \in Slots : slots[i] = u
    BY <2>1 DEF InPool
  <2>3. slots'[i] = u
    BY <1>1, <2>2, TimerAssumption DEF TypeOK
  <2>. QED
    BY <2>1, <2>3 DEF InPool
<1>5. UNCHANGED <<ticks, scan, queue>> /\ ~InHandler /\ pc' = "idle"
  BY DEF progress
<1>. QED
  BY <1>4, <1>5 DEF Quiet, ArmsInOrder

LEMMA CollectQuiet ==
  ASSUME InOrder, TimingInv, NEW t \in Timers, Collect(t)
  PROVE  Quiet /\ ArmsInOrder'
<1>. USE DEF TimingInv, IInv, Collect, MainIdle
<1>1. ~obj[t].active
  BY DEF TimingInv
<1>2. obj' = [obj EXCEPT ![t] = FreshObj] /\ ~FreshObj.active /\ obj \in [Timers -> Obj]
  BY DEF FreshObj, TypeOK
<1>3. \A u \in Timers : obj[u].active \/ obj'[u].active => obj'[u] = obj[u] /\ InPool(u)'
  BY <1>1, <1>2 DEF InPool
<1>4. UNCHANGED <<ticks, scan, queue>> /\ ~InHandler /\ pc' = "idle"
  BY DEF progress
<1>. QED
  BY <1>3, <1>4 DEF Quiet, ArmsInOrder

LEMMA InitCallQuiet ==
  ASSUME InOrder, TimingInv, NEW t \in Timers, NEW v \in Vals, v.period \in Periods, InitCall(t, v)
  PROVE  Quiet /\ ArmsInOrder'
BY DEF TimingInv, InitCall, MainIdle, InOrder, Quiet, ArmsInOrder, InPool, InitArgs

LEMMA DeinitCallQuiet ==
  ASSUME InOrder, TimingInv, NEW t \in Timers, DeinitCall(t)
  PROVE  Quiet /\ ArmsInOrder'
BY DEF TimingInv, DeinitCall, MainIdle, InOrder, Quiet, ArmsInOrder, InPool

LEMMA ReadTicksQuiet ==
  ASSUME InOrder, TimingInv, ReadTicks
  PROVE  Quiet /\ ArmsInOrder'
<1>1. (ticks - ticks) % TickMod = 0
  BY ModSmall, Params DEF TimingInv, IInv, TypeOK
<1>2. preempted \in Nat /\ "last_tick" \in StoresToArm(self)
  BY Params DEF TimingInv, IInv, TypeOK, StoresToArm
<1>. QED
  BY <1>1, <1>2 DEF TimingInv, ReadTicks, Quiet, ArmsInOrder, InPool

LEMMA ReturnQuiet ==
  ASSUME InOrder, TimingInv, Return
  PROVE  Quiet /\ ArmsInOrder'
BY DEF TimingInv, Return, Quiet, ArmsInOrder, InPool

LEMMA StoreFieldQuiet ==
  ASSUME InOrder, TimingInv, NEW s \in Stores \ {"active", "stop"}, StoreField(s)
  PROVE  Quiet /\ ArmsInOrder'
<1>. USE DEF StoreField
<1>1. self \in Timers /\ s \in todo /\ IInv /\ obj \in [Timers -> Obj] /\ obj[self] \in Obj
  BY CallStores DEF TimingInv, Commits, IInv, TypeOK
<1>2. s \in {"period", "mode", "callback", "last_tick"}
  BY DEF Stores, InitArgs
<1>3. pc = IF s = "last_tick" THEN "arm" ELSE "args"
  BY <1>1, <1>2, CallStores DEF InitArgs
<1>4. ~obj[self].active
  BY <1>1, <1>2, <1>3 DEF TimingInv, ArmsInOrder
<1>5. obj' = [obj EXCEPT ![self] = Stored(obj[self], s)]
  OBVIOUS
<1>6. /\ obj'[self] = Stored(obj[self], s)
      /\ \A u \in Timers : u # self => obj'[u] = obj[u]
  BY <1>1, <1>5
<1>7. Stored(obj[self], s).active = obj[self].active
  BY <1>1, <1>2 DEF Stored, Obj
<1>8. s = "period" => Stored(obj[self], s).period = vals.period
  BY <1>1 DEF Stored, Obj
<1>9. s # "period" => Stored(obj[self], s).period = obj[self].period
  BY <1>1, <1>2 DEF Stored, Obj
<1>10. s = "last_tick" => Stored(obj[self], s).last_tick = now
  BY <1>1 DEF Stored, Obj
<1>11. Quiet
  BY <1>1, <1>4, <1>6, <1>7 DEF Quiet, InPool, TimingInv
<1>12. ArmsInOrder'
  BY <1>1, <1>2, <1>3, <1>4, <1>6, <1>7, <1>8, <1>9, <1>10 DEF ArmsInOrder, TimingInv
<1>. QED
  BY <1>11, <1>12

LEMMA StoreSlotQuiet ==
  ASSUME InOrder, TimingInv, StoreSlot
  PROVE  Quiet /\ ArmsInOrder'
<1>. USE DEF StoreSlot, Commits
<1>1. IInv /\ TypeOK /\ self \in Timers /\ pc = "arm" /\ Empty # {}
  BY CallStores DEF TimingInv, IInv, CallConsistent
<1>2. FirstEmpty \in Slots /\ slots[FirstEmpty] = NULL
  BY <1>1, FirstEmptyIsEmpty
<1>3. ASSUME NEW u \in Timers, obj[u].active
      PROVE  InPool(u)'
  <2>1. PICK i \in Slots : slots[i] = u
    BY <1>3 DEF TimingInv, InPool
  <2>2. slots'[i] = u
    BY <1>1, <1>2, <2>1, TimerAssumption DEF TypeOK
  <2>. QED
    BY <2>2 DEF InPool
<1>4. Quiet
  BY <1>3 DEF Quiet
<1>5. ArmsInOrder'
  BY <1>1 DEF ArmsInOrder, TimingInv
<1>. QED
  BY <1>4, <1>5

LEMMA ClearSlotQuiet ==
  ASSUME InOrder, TimingInv, ClearSlot
  PROVE  Quiet /\ ArmsInOrder'
<1>. USE DEF ClearSlot
<1>1. IInv /\ TypeOK /\ self \in Timers /\ pc = "deinit" /\ "unslot" \in todo
  BY CallStores DEF TimingInv, IInv, Commits
<1>2. "stop" \notin todo
  BY <1>1, StoresInOrder DEF Stores
<1>3. ~obj[self].active /\ InPool(self)
  BY <1>1, <1>2 DEF IInv, CallConsistent
<1>4. SlotOf(self) \in Slots /\ slots[SlotOf(self)] = self
  BY <1>3, SlotOfHolds
<1>5. ASSUME NEW u \in Timers, obj[u].active
      PROVE  InPool(u)'
  <2>1. PICK i \in Slots : slots[i] = u
    BY <1>5 DEF TimingInv, InPool
  <2>2. slots'[i] = u
    BY <1>1, <1>3, <1>4, <1>5, <2>1 DEF TypeOK
  <2>. QED
    BY <2>2 DEF InPool
<1>6. Quiet
  BY <1>5 DEF Quiet
<1>7. ArmsInOrder'
  BY <1>1 DEF ArmsInOrder, TimingInv
<1>. QED
  BY <1>6, <1>7

-----------------------------------------------------------------------------
(* The steps that armed timers notice *)

(* The last store of init: the timer is as old as the call has been hit by *)
(* ticks since it read the clock.                                          *)
LEMMA Activate ==
  ASSUME InOrder, TimingInv, StoreField("active")
  PROVE  /\ ~InHandler /\ UNCHANGED <<ticks, slots, scan, queue>>
         /\ self \in Timers /\ ~obj[self].active /\ InPool(self)
         /\ obj'[self] = [obj[self] EXCEPT !.active = TRUE] /\ obj'[self].active
         /\ \A u \in Timers : u # self => obj'[u] = obj[u]
         /\ self' = self /\ Config(self)' = Config(self)
         /\ obj[self].period \in Periods /\ obj'[self].period = obj[self].period
         /\ (ticks' - obj'[self].last_tick) % TickMod \in 0 .. MaxPreempt
         /\ pc = "arm" /\ pc' = "arm" /\ todo' = {}
<1>. USE DEF StoreField
<1>1. /\ IInv /\ TypeOK /\ "active" \in todo /\ self \in Timers /\ pc = "arm"
      /\ Commits("active")
  BY CallStores DEF TimingInv, IInv, Commits
<1>2. todo = {"active"}
  BY <1>1, StoresInOrder DEF Stores
<1>3. /\ ~obj[self].active /\ obj[self].period \in Periods /\ obj[self].last_tick = now
      /\ (ticks - now) % TickMod <= preempted
  BY <1>1, <1>2 DEF TimingInv, ArmsInOrder
<1>4. InPool(self)
  BY <1>1, <1>2 DEF IInv, CallConsistent
<1>5. obj[self] \in Obj /\ obj \in [Timers -> Obj]
  BY <1>1 DEF TypeOK
<1>6. obj' = [obj EXCEPT ![self] = [obj[self] EXCEPT !.active = TRUE]]
  BY DEF Stored
<1>7. /\ obj'[self] = [obj[self] EXCEPT !.active = TRUE]
      /\ \A u \in Timers : u # self => obj'[u] = obj[u]
  BY <1>1, <1>5, <1>6
<1>8. /\ obj'[self].active /\ obj'[self].last_tick = now /\ obj'[self].period = obj[self].period
      /\ obj'[self].mode = obj[self].mode /\ obj'[self].callback = obj[self].callback
  BY <1>3, <1>5, <1>7 DEF Obj
<1>9. (ticks' - obj'[self].last_tick) % TickMod = (ticks - now) % TickMod
  BY <1>8
<1>10. (ticks - now) % TickMod \in 0 .. MaxPreempt
  <2>1. ticks - now \in Int /\ preempted \in 0 .. MaxPreempt
    BY <1>1, Params DEF TypeOK
  <2>2. (ticks - now) % TickMod \in 0 .. TickMod - 1
    BY <2>1, ModType, Params, Zenon
  <2>. QED
    BY <1>3, <2>1, <2>2, Params
<1>. QED
  BY <1>1, <1>2, <1>3, <1>4, <1>7, <1>8, <1>9, <1>10 DEF Config

LEMMA ActivateInv ==
  ASSUME InOrder, TimingInv, IInv', StoreField("active")
  PROVE  TimingInv'
<1>. USE Activate
<1>1. \A t \in Timers : ~Ahead(t)'
  BY NoneAhead, Params DEF TimingInv, IInv, Ahead
<1>2. ASSUME NEW t \in Timers, obj'[t].active
      PROVE  InPool(t)' /\ InTime(t)'
  <2>1. CASE t = self
    <3>1. Elapsed(t)' <= MaxPreempt
      BY <2>1, Params DEF Elapsed
    <3>. QED
      BY <1>1, <2>1, <3>1 DEF InPool, InTime
  <2>2. CASE t # self
    <3>1. obj[t].active /\ obj'[t] = obj[t] /\ InPool(t) /\ InTime(t) /\ ~Ahead(t)
      BY <1>2, <2>2, NoneAhead DEF TimingInv, IInv
    <3>. QED
      BY <1>1, <3>1 DEF InPool, InTime, Elapsed, DueAge
  <2>. QED BY <2>1, <2>2
<1>3. ArmsInOrder'
  <2>1. now' = now /\ preempted' = preempted
    BY DEF StoreField
  <2>. QED
    BY <2>1 DEF ArmsInOrder, TimingInv
<1>. QED
  BY <1>2, <1>3 DEF TimingInv

LEMMA Deactivate ==
  ASSUME TimingInv, StoreField("stop")
  PROVE  /\ ~InHandler /\ UNCHANGED <<ticks, slots, scan, queue>>
         /\ self \in Timers /\ ~obj'[self].active
         /\ \A u \in Timers : u # self => obj'[u] = obj[u]
         /\ pc' = "deinit"
<1>. USE DEF StoreField
<1>1. TypeOK /\ "stop" \in todo /\ self \in Timers /\ pc = "deinit"
  BY CallStores DEF TimingInv, IInv, Commits
<1>2. obj[self] \in Obj /\ obj \in [Timers -> Obj]
  BY <1>1 DEF TypeOK
<1>3. obj' = [obj EXCEPT ![self] = [obj[self] EXCEPT !.active = FALSE]]
  BY DEF Stored
<1>4. /\ obj'[self] = [obj[self] EXCEPT !.active = FALSE]
      /\ \A u \in Timers : u # self => obj'[u] = obj[u]
  BY <1>1, <1>2, <1>3
<1>. QED
  BY <1>1, <1>2, <1>4 DEF Obj

LEMMA DeactivateInv ==
  ASSUME TimingInv, IInv', StoreField("stop")
  PROVE  TimingInv'
<1>. USE Deactivate
<1>1. ASSUME NEW t \in Timers, obj'[t].active
      PROVE  InPool(t)' /\ InTime(t)'
  <2>1. t # self /\ obj'[t] = obj[t] /\ obj[t].active
    BY <1>1
  <2>2. InPool(t) /\ InTime(t)
    BY <2>1 DEF TimingInv
  <2>. QED
    BY <2>1, <2>2 DEF InPool, InTime, Elapsed, DueAge, Ahead
<1>. QED
  BY <1>1 DEF TimingInv, ArmsInOrder

LEMMA RunPendingInv ==
  ASSUME TimingInv, IInv', RunPending
  PROVE  TimingInv'
BY DEF TimingInv, RunPending, MainIdle, progress, ArmsInOrder, InPool, InTime, Elapsed, DueAge, Ahead

(* A tick makes every active timer one tick older, and never so old that   *)
(* its age wraps.                                                          *)
LEMMA TickAges ==
  ASSUME InOrder, TimingInv, SysTick, NEW t \in Timers, obj[t].active
  PROVE  /\ Elapsed(t)' = Elapsed(t) + 1
         /\ Elapsed(t)' \in 1 .. DueAge(t) + MaxPreempt
<1>1. TypeOK /\ InTime(t) /\ ~Ahead(t)
  BY NoneAhead DEF TimingInv, IInv, SysTick
<1>2. Elapsed(t) \in 0 .. TickMod - 1 /\ DueAge(t) \in 1 .. TickMod - 1
  BY <1>1, ElapsedType, DueAgeType
<1>3. Elapsed(t) < TickMod - 1 /\ Elapsed(t) + 1 \in 1 .. DueAge(t) + MaxPreempt
  BY <1>1, <1>2, Params DEF InTime, InOrder
<1>4. Elapsed(t)' = (((ticks + 1) % TickMod) - obj[t].last_tick) % TickMod
  BY DEF SysTick, Elapsed
<1>5. ticks \in 0 .. TickMod - 1 /\ obj[t].last_tick \in 0 .. TickMod - 1
  BY <1>1, Objects
<1>6. Elapsed(t)' = Elapsed(t) + 1
  BY <1>3, <1>4, <1>5, TickElapsed, Params, Zenon DEF Elapsed
<1>. QED
  BY <1>3, <1>6

LEMMA SysTickInv ==
  ASSUME InOrder, TimingInv, IInv', SysTick
  PROVE  TimingInv'
<1>1. TypeOK /\ scan' = 0 /\ UNCHANGED <<slots, obj, pc, self, vals, now, todo>>
  BY DEF TimingInv, IInv, SysTick, progress
<1>2. ASSUME NEW t \in Timers, obj'[t].active
      PROVE  InPool(t)' /\ InTime(t)'
  <2>1. obj[t].active /\ InPool(t)
    BY <1>1, <1>2 DEF TimingInv
  <2>2. Elapsed(t)' \in 1 .. DueAge(t) + MaxPreempt
    BY <2>1, TickAges
  <2>3. Ahead(t)'
    BY <1>1, <2>1 DEF Ahead, InPool, Slots
  <2>. QED
    BY <1>1, <2>1, <2>2, <2>3 DEF InPool, InTime, DueAge
<1>3. pc = "arm" => (ticks' - now') % TickMod <= preempted'
  <2>. SUFFICES ASSUME pc = "arm" PROVE (ticks' - now) % TickMod <= preempted'
    BY <1>1
  <2>1. /\ preempted < MaxPreempt /\ preempted' = preempted + 1 /\ preempted \in Nat
        /\ ticks' = (ticks + 1) % TickMod
        /\ ticks \in 0 .. TickMod - 1 /\ now \in 0 .. TickMod - 1
    BY <1>1, Params DEF SysTick, TypeOK
  <2>2. (ticks - now) % TickMod <= preempted
    BY DEF TimingInv, ArmsInOrder
  <2>3. (ticks - now) % TickMod \in 0 .. TickMod - 1
    <3>. ticks - now \in Int
      BY <2>1
    <3>. QED BY ModType, Params, Zenon
  <2>4. (ticks - now) % TickMod < TickMod - 1
    BY <2>1, <2>2, <2>3, Params DEF InOrder
  <2>5. (((ticks + 1) % TickMod) - now) % TickMod = ((ticks - now) % TickMod) + 1
    BY <2>1, <2>4, TickElapsed, Params, Zenon
  <2>. QED
    BY <2>1, <2>2, <2>3, <2>5
<1>4. ArmsInOrder'
  BY <1>1, <1>3 DEF ArmsInOrder, TimingInv
<1>. QED
  BY <1>2, <1>4 DEF TimingInv

(* The pass of the handler goes on to the next slot.                       *)
LEMMA NextSlot ==
  ASSUME TypeOK, InHandler, scan' = scan + 1, slots' = slots, NEW t
  PROVE  Ahead(t) <=> slots[scan] = t \/ Ahead(t)'
BY Params DEF TypeOK, InHandler, Ahead

LEMMA SkipSlotInv ==
  ASSUME InOrder, TimingInv, IInv', SkipSlot
  PROVE  TimingInv'
<1>1. /\ TypeOK /\ InHandler /\ scan' = scan + 1
      /\ UNCHANGED <<ticks, slots, obj, pc, self, vals, now, todo, preempted>>
  BY DEF TimingInv, IInv, SkipSlot, progress
<1>2. ASSUME NEW t \in Timers, obj'[t].active
      PROVE  InPool(t)' /\ InTime(t)'
  <2>1. obj[t].active /\ InPool(t) /\ InTime(t)
    BY <1>1, <1>2 DEF TimingInv
  <2>2. Elapsed(t)' = Elapsed(t) /\ DueAge(t)' = DueAge(t) /\ InPool(t)'
    BY <1>1, <2>1 DEF Elapsed, DueAge, InPool
  <2>3. CASE Ahead(t) /\ ~Ahead(t)'
    <3>1. slots[scan] = t
      BY <1>1, <2>3, NextSlot
    <3>2. ~(Elapsed(t) >= obj[t].period)
      BY <2>1, <3>1 DEF SkipSlot, Due
    <3>3. Elapsed(t) < DueAge(t)
      BY <1>1, <3>2, ElapsedType, Objects, Params DEF DueAge
    <3>. QED
      BY <2>2, <2>3, <3>3 DEF InTime
  <2>4. CASE Ahead(t) <=> Ahead(t)'
    BY <2>1, <2>2, <2>4 DEF InTime
  <2>. QED
    BY <1>1, <2>2, <2>3, <2>4, NextSlot
<1>. QED
  BY <1>1, <1>2 DEF TimingInv, ArmsInOrder

(* A shot: a one-shot is inactive then, and the age of a periodic timer    *)
(* starts again.  Neither comes up again in this pass.                     *)
LEMMA Shot ==
  ASSUME InOrder, TimingInv, NEW t \in Timers, Fire(t)
  PROVE  /\ UNCHANGED <<ticks, slots, pc, self, vals, now, todo, preempted>>
         /\ obj[t].active /\ Ahead(t) /\ ~Ahead(t)'
         /\ obj'[t].active <=> obj[t].mode # "ONE_SHOT"
         /\ obj'[t].active => Elapsed(t)' = 0
         /\ Config(t)' = Config(t)
         /\ \A u \in Timers : u # t => obj'[u] = obj[u] /\ (Ahead(u) <=> Ahead(u)')
<1>. USE DEF Fire
<1>1. TypeOK /\ PoolInjective /\ scan' = scan + 1 /\ slots' = slots /\ ticks' = ticks
  BY DEF TimingInv, IInv
<1>2. obj[t] \in Obj /\ obj \in [Timers -> Obj] /\ obj[t].active
  BY <1>1 DEF TypeOK, Due
<1>3. obj' = [obj EXCEPT ![t] = Rearmed(obj[t])]
  OBVIOUS
<1>4. /\ obj'[t] = Rearmed(obj[t])
      /\ \A u \in Timers : u # t => obj'[u] = obj[u]
  BY <1>2, <1>3
<1>5. /\ Rearmed(obj[t]).period = obj[t].period /\ Rearmed(obj[t]).mode = obj[t].mode
      /\ Rearmed(obj[t]).callback = obj[t].callback
      /\ Rearmed(obj[t]).active <=> obj[t].mode # "ONE_SHOT"
      /\ obj[t].mode # "ONE_SHOT" => Rearmed(obj[t]).last_tick = ticks
  BY <1>2 DEF Rearmed, Obj
<1>6. Config(t)' = Config(t)
  BY <1>4, <1>5 DEF Config
<1>7. obj'[t].active => Elapsed(t)' = 0
  <2>1. (ticks - ticks) % TickMod = 0
    BY <1>1, ModSmall, Params DEF TypeOK
  <2>. QED
    BY <1>1, <1>4, <1>5, <2>1 DEF Elapsed
<1>8. Ahead(t) /\ \A u \in Timers : u # t => (Ahead(u) <=> Ahead(u)')
  BY <1>1, NextSlot
<1>9. ~Ahead(t)'
  <2>. SUFFICES ASSUME NEW i \in scan + 1 .. MaxTimers - 1, slots[i] = t PROVE FALSE
    BY <1>1 DEF Ahead
  <2>1. i \in Slots /\ scan \in Slots /\ i # scan
    BY <1>1, Params DEF TypeOK, InHandler, Slots
  <2>. QED
    BY <1>1, <2>1, TimerAssumption DEF PoolInjective
<1>10. UNCHANGED <<pc, self, vals, now, todo, preempted>>
  BY DEF progress
<1>. QED
  BY <1>1, <1>2, <1>4, <1>5, <1>6, <1>7, <1>8, <1>9, <1>10

LEMMA FireInv ==
  ASSUME InOrder, TimingInv, IInv', NEW t \in Timers, Fire(t)
  PROVE  TimingInv'
<1>. USE Shot
<1>1. ASSUME NEW u \in Timers, obj'[u].active
      PROVE  InPool(u)' /\ InTime(u)'
  <2>1. obj[u].active
    BY <1>1
  <2>2. InPool(u) /\ InTime(u)
    BY <2>1 DEF TimingInv
  <2>3. CASE u = t
    BY <1>1, <2>2, <2>3, Params DEF InPool, InTime
  <2>4. CASE u # t
    BY <2>2, <2>4 DEF InPool, InTime, Elapsed, DueAge
  <2>. QED
    BY <2>3, <2>4
<1>2. \A u \in Timers : obj'[u].period = obj[u].period
  BY DEF Config
<1>3. \A u \in Timers : ~obj[u].active => obj'[u] = obj[u]
  OBVIOUS
<1>4. self \in Timers \/ pc = "idle"
  BY DEF TimingInv, IInv, TypeOK, CallConsistent
<1>5. ArmsInOrder'
  BY <1>2, <1>3, <1>4 DEF ArmsInOrder, TimingInv
<1>. QED
  BY <1>1, <1>5 DEF TimingInv

-----------------------------------------------------------------------------
(* The invariant and the shots *)

LEMMA InitTiming == Init => TimingInv
<1>. SUFFICES ASSUME Init PROVE TimingInv
  OBVIOUS
<1>1. IInv
  BY InitIInv
<1>2. \A t \in Timers : ~obj[t].active
  BY DEF Init, FreshObj
<1>. QED
  BY <1>1, <1>2 DEF Init, TimingInv, ArmsInOrder

(* Every step is one that armed timers do not notice, or one of six.       *)
LEMMA StepKinds ==
  ASSUME InOrder, TimingInv, [Next]_vars
  PROVE  \/ Quiet /\ ArmsInOrder'
         \/ StoreField("active") \/ StoreField("stop") \/ RunPending
         \/ SysTick \/ SkipSlot \/ \E t \in Timers : Fire(t)
         \/ UNCHANGED vars
<1>1. ASSUME NEW t \in Timers, MakeNew(t) \/ Collect(t) \/ DeinitCall(t)
      PROVE  Quiet /\ ArmsInOrder'
  BY <1>1, MakeNewQuiet, CollectQuiet, DeinitCallQuiet
<1>2. ASSUME NEW t \in Timers, NEW p \in Periods, NEW m \in Modes, NEW c \in Callbacks,
             InitCall(t, [period |-> p, mode |-> m, callback |-> c])
      PROVE  Quiet /\ ArmsInOrder'
  <2>. DEFINE v == [period |-> p, mode |-> m, callback |-> c]
  <2>1. v \in Vals /\ v.period \in Periods
    BY DEF Vals
  <2>. HIDE DEF v
  <2>2. InitCall(t, v)
    BY <1>2 DEF v
  <2>. QED
    BY <2>1, <2>2, InitCallQuiet
<1>3. ReadTicks \/ Return \/ StoreSlot \/ ClearSlot => Quiet /\ ArmsInOrder'
  BY ReadTicksQuiet, ReturnQuiet, StoreSlotQuiet, ClearSlotQuiet
<1>4. ASSUME NEW s \in Stores \ {"active", "stop"}, StoreField(s)
      PROVE  Quiet /\ ArmsInOrder'
  BY <1>4, StoreFieldQuiet
<1>. QED
  BY <1>1, <1>2, <1>3, <1>4 DEF Next, Handler, Finish, Script

LEMMA NextTiming == InOrder /\ TimingInv /\ [Next]_vars => TimingInv'
<1>. SUFFICES ASSUME InOrder, TimingInv, [Next]_vars PROVE TimingInv'
  OBVIOUS
<1>0. IInv'
  BY NextIInv DEF TimingInv
<1>1. CASE Quiet /\ ArmsInOrder'
  BY <1>0, <1>1, QuietInv
<1>2. CASE StoreField("active") \/ StoreField("stop") \/ RunPending
  BY <1>0, <1>2, ActivateInv, DeactivateInv, RunPendingInv
<1>3. CASE SysTick \/ SkipSlot \/ \E t \in Timers : Fire(t)
  BY <1>0, <1>3, SysTickInv, SkipSlotInv, FireInv
<1>4. CASE UNCHANGED vars
  BY <1>0, <1>4 DEF vars, progress, TimingInv, ArmsInOrder, InPool, InTime, Elapsed, DueAge, Ahead
<1>. QED
  BY <1>1, <1>2, <1>3, <1>4, StepKinds

(* The inductive invariant of the timing: what init has stored so far, and *)
(* how old each active timer may be.                                       *)
THEOREM TimingInvariant == InOrder => (Spec => []TimingInv)
<1>. SUFFICES ASSUME InOrder PROVE Spec => []TimingInv
  OBVIOUS
<1>1. TimingInv /\ [Next]_vars => TimingInv'
  BY NextTiming
<1>. QED
  BY <1>1, InitTiming, PTL DEF Spec

(* Every shot is fired in the tick its period ends, or later by the ticks  *)
(* that hit the init; never earlier, also when ticks_ms wraps.             *)
THEOREM ShotsOnTime == InOrder => (Spec => PreciseShot)
<1>. SUFFICES ASSUME InOrder PROVE Spec => PreciseShot
  OBVIOUS
<1>1. TimingInv /\ [Next]_vars
        => [\A t \in Timers : Fire(t) =>
              LET due == IF obj[t].period = 0 THEN 1 ELSE obj[t].period
              IN  Elapsed(t) \in due .. due + MaxPreempt]_vars
  <2>. SUFFICES ASSUME TimingInv, NEW t \in Timers, Fire(t)
                PROVE  Elapsed(t) \in DueAge(t) .. DueAge(t) + MaxPreempt
    BY DEF DueAge
  <2>1. TypeOK /\ obj[t].active /\ Ahead(t) /\ Elapsed(t) >= obj[t].period
    BY Shot DEF TimingInv, IInv, Fire, Due
  <2>2. Elapsed(t) \in 1 .. DueAge(t) + MaxPreempt
    BY <2>1 DEF TimingInv, InTime
  <2>3. DueAge(t) \in Nat /\ obj[t].period \in Nat
    BY <2>1, DueAgeType, Objects, Params
  <2>. QED
    BY <2>1, <2>2, <2>3, Params DEF DueAge
<1>2. Spec => []TimingInv
  BY TimingInvariant
<1>. QED
  BY <1>1, <1>2, PTL DEF Spec, PreciseShot

-----------------------------------------------------------------------------
(* Refinement *)

(* What an abstract timer sees before and after a step.                    *)
LEMMA Maps ==
  ASSUME TimingInv, TimingInv'
  PROVE  /\ ConfigMap  = [t \in Timers |-> IF obj[t].active THEN Config(t) ELSE Off]
         /\ ConfigMap' = [t \in Timers |-> IF obj'[t].active THEN Config(t)' ELSE Off]
         /\ AgeMap  = [t \in Timers |-> IF obj[t].active THEN Elapsed(t) ELSE 0]
         /\ AgeMap' = [t \in Timers |-> IF obj'[t].active THEN Elapsed(t)' ELSE 0]
<1>1. \A t \in Timers : (Armed(t) <=> obj[t].active) /\ (Armed(t)' <=> obj'[t].active)
  BY DEF TimingInv, Armed
<1>. QED
  BY <1>1, Off' = Off DEF ConfigMap, AgeMap, Off

LEMMA InitRefines == Init => Abstract!AInit
<1>. SUFFICES ASSUME Init PROVE Abstract!AInit
  OBVIOUS
<1>1. \A t \in Timers : ~Armed(t) /\ ~Due(t)
  BY DEF Init, FreshObj, Armed, Due
<1>. QED
  BY <1>1 DEF Init, Abstract!AInit, Abstract!Off, Off, Unserved

LEMMA TickRefines ==
  ASSUME InOrder, TimingInv, TimingInv', SysTick
  PROVE  Abstract!Tick
<1>1. /\ TypeOK /\ ~InHandler /\ scan' = 0 /\ UNCHANGED <<slots, obj, queue>>
  BY DEF TimingInv, IInv, SysTick
<1>2. \A t \in Timers : obj[t].active => Elapsed(t)' = Elapsed(t) + 1 /\ ConfigMap[t] # Off
  BY TickAges, ArmedActive
<1>3. \A t \in Timers : Config(t)' = Config(t)
  BY <1>1 DEF Config
<1>4. ConfigMap' = ConfigMap
  BY <1>1, <1>3, Maps
<1>5. AgeMap' = [t \in Timers |-> IF ConfigMap[t] = Off THEN 0 ELSE AgeMap[t] + 1]
  BY <1>1, <1>2, Maps, ArmedActive
<1>6. Unserved' = {t \in Timers : ConfigMap[t] # Off /\ AgeMap'[t] >= ConfigMap[t].period}
  <2>. SUFFICES ASSUME NEW t \in Timers
                PROVE  t \in Unserved' <=> ConfigMap[t] # Off /\ AgeMap'[t] >= ConfigMap[t].period
    BY DEF Unserved
  <2>1. t \in Unserved' <=> obj[t].active /\ Elapsed(t)' >= obj[t].period /\ InPool(t)
    BY <1>1 DEF Unserved, Due, InPool, Slots, Elapsed
  <2>2. obj[t].active => InPool(t) /\ ConfigMap[t].period = obj[t].period
                         /\ AgeMap'[t] = Elapsed(t)'
    BY <1>1, Maps, ArmedActive DEF TimingInv, Config
  <2>. QED
    BY <2>1, <2>2, ArmedActive
<1>7. Unserved = {}
  BY <1>1, NoneUnserved
<1>. QED
  BY <1>1, <1>4, <1>5, <1>6, <1>7 DEF Abstract!Tick, Abstract!Off, Off, ConfigMap, AgeMap

LEMMA SkipRefines ==
  ASSUME TimingInv, TimingInv', SkipSlot
  PROVE  UNCHANGED <<ConfigMap, AgeMap, Unserved, queue>>
<1>1. /\ TypeOK /\ InHandler /\ scan' = scan + 1 /\ UNCHANGED <<ticks, slots, obj, queue>>
  BY DEF TimingInv, IInv, SkipSlot
<1>2. ConfigMap' = ConfigMap /\ AgeMap' = AgeMap
  BY <1>1 DEF ConfigMap, AgeMap, Armed, InPool, Config, Elapsed, Off
<1>3. \A t \in Timers : Due(t) => slots[scan] # t
  BY DEF SkipSlot
<1>4. \A t \in Timers : (Due(t)' <=> Due(t)) /\ (Ahead(t) <=> slots[scan] = t \/ Ahead(t)')
  BY <1>1, NextSlot DEF Due, Elapsed
<1>5. Unserved' = Unserved
  BY <1>3, <1>4 DEF Unserved, Ahead
<1>. QED
  BY <1>1, <1>2, <1>5

LEMMA FireRefines ==
  ASSUME InOrder, TimingInv, TimingInv', NEW t \in Timers, Fire(t)
  PROVE  Abstract!Shoot(t)
<1>0. /\ UNCHANGED <<ticks, slots>> /\ obj[t].active /\ Ahead(t) /\ ~Ahead(t)'
      /\ obj'[t].active <=> obj[t].mode # "ONE_SHOT"
      /\ obj'[t].active => Elapsed(t)' = 0
      /\ Config(t)' = Config(t)
      /\ \A u \in Timers : u # t => obj'[u] = obj[u] /\ (Ahead(u) <=> Ahead(u)')
  BY Shot
<1>1. t \in Unserved
  BY <1>0 DEF Unserved, Ahead, Fire
<1>2. ASSUME NEW u \in Timers, u # t
      PROVE  /\ Config(u)' = Config(u) /\ Elapsed(u)' = Elapsed(u)
             /\ obj'[u].active <=> obj[u].active
             /\ u \in Unserved' <=> u \in Unserved
             /\ ConfigMap'[u] = ConfigMap[u] /\ AgeMap'[u] = AgeMap[u]
  <2>1. obj'[u] = obj[u] /\ (Ahead(u) <=> Ahead(u)') /\ UNCHANGED <<ticks, slots>>
    BY <1>0, <1>2
  <2>2. Config(u)' = Config(u) /\ Elapsed(u)' = Elapsed(u) /\ (Due(u)' <=> Due(u))
    BY <2>1 DEF Config, Elapsed, Due
  <2>3. u \in Unserved' <=> u \in Unserved
    BY <2>1, <2>2 DEF Unserved, Ahead
  <2>. QED
    BY <2>1, <2>2, <2>3, Maps
<1>3. ConfigMap[t] = Config(t)
  BY <1>0, ArmedActive
<1>4. ConfigMap' = IF obj[t].mode = "ONE_SHOT" THEN [ConfigMap EXCEPT ![t] = Off] ELSE ConfigMap
  <2>1. ConfigMap'[t] = IF obj[t].mode = "ONE_SHOT" THEN Off ELSE ConfigMap[t]
    BY <1>0, <1>3, Maps
  <2>2. \A u \in Timers : u # t => ConfigMap'[u] = ConfigMap[u]
    BY <1>2
  <2>. QED
    BY <2>1, <2>2, Maps, Zenon DEF ConfigMap
<1>5. AgeMap' = [AgeMap EXCEPT ![t] = 0]
  <2>1. AgeMap'[t] = 0
    BY <1>0, Maps
  <2>2. \A u \in Timers : u # t => AgeMap'[u] = AgeMap[u]
    BY <1>2
  <2>. QED
    BY <2>1, <2>2, Maps
<1>6. Unserved' = Unserved \ {t}
  <2>1. Unserved \subseteq Timers /\ Unserved' \subseteq Timers
    BY DEF Unserved
  <2>2. t \notin Unserved'
    BY <1>0 DEF Unserved, Ahead
  <2>3. \A u \in Timers : u # t => (u \in Unserved' <=> u \in Unserved)
    BY <1>2
  <2>. QED
    BY <2>1, <2>2, <2>3
<1>7. queue' = IF Config(t).callback = None THEN queue
              ELSE Schedule(queue, <<Config(t).callback, t>>)
  BY DEF Fire, Posted, Config
<1>8. Config(t).mode = obj[t].mode
  BY DEF Config
<1>. QED
  BY <1>1, <1>3, <1>4, <1>5, <1>6, <1>7, <1>8
     DEF Abstract!Shoot, Abstract!Off, Abstract!Schedule, Abstract!SchedFull, Schedule, SchedFull,
         Off, ConfigMap, AgeMap

LEMMA ActivateRefines ==
  ASSUME InOrder, TimingInv, TimingInv', StoreField("active")
  PROVE  \E c \in Abstract!Configs : Abstract!Arm(self, c)
<1>. USE Activate
<1>1. TypeOK
  BY DEF TimingInv, IInv
<1>2. Config(self) \in Abstract!Configs
  BY <1>1, Objects DEF Config, Abstract!Configs, Modes
<1>3. \A u \in Timers : u # self => Config(u)' = Config(u) /\ Elapsed(u)' = Elapsed(u)
  BY DEF Config, Elapsed
<1>4. Elapsed(self)' \in 0 .. MaxPreempt
  BY DEF Elapsed
<1>5. ConfigMap[self] = Off
  BY ArmedActive
<1>6. ConfigMap' = [ConfigMap EXCEPT ![self] = Config(self)]
  BY <1>3, Maps
<1>7. AgeMap' = [AgeMap EXCEPT ![self] = Elapsed(self)']
  BY <1>3, Maps
<1>8. Unserved = {} /\ Unserved' = {}
  BY <1>1, NoneAhead, Params DEF Unserved
<1>9. Abstract!Arm(self, Config(self))
  BY <1>4, <1>5, <1>6, <1>7, <1>8 DEF Abstract!Arm, Abstract!Off, Off, ConfigMap, AgeMap
<1>. QED
  BY <1>2, <1>9

LEMMA DeactivateRefines ==
  ASSUME TimingInv, TimingInv', StoreField("stop")
  PROVE  Abstract!Disarm(self)
<1>. USE Deactivate
<1>1. TypeOK
  BY DEF TimingInv, IInv
<1>2. \A u \in Timers : u # self => Config(u)' = Config(u) /\ Elapsed(u)' = Elapsed(u)
  BY DEF Config, Elapsed
<1>3. ConfigMap' = [ConfigMap EXCEPT ![self] = Off]
  BY <1>2, Maps
<1>4. AgeMap' = [AgeMap EXCEPT ![self] = 0]
  BY <1>2, Maps
<1>5. Unserved = {} /\ Unserved' = {}
  BY <1>1, NoneAhead, Params DEF Unserved
<1>. QED
  BY <1>3, <1>4, <1>5 DEF Abstract!Disarm, Abstract!Off, Off, ConfigMap, AgeMap

LEMMA PollRefines ==
  ASSUME TimingInv, RunPending
  PROVE  Abstract!Poll
<1>1. TypeOK /\ ~InHandler /\ UNCHANGED <<ticks, slots, obj, scan>>
  BY DEF TimingInv, IInv, RunPending, MainIdle
<1>2. ConfigMap' = ConfigMap /\ AgeMap' = AgeMap
  BY <1>1 DEF ConfigMap, AgeMap, Armed, InPool, Config, Elapsed, Off
<1>3. Unserved = {} /\ Unserved' = {}
  BY <1>1, NoneAhead, Params DEF Unserved
<1>. QED
  BY <1>2, <1>3 DEF RunPending, Abstract!Poll, ConfigMap, AgeMap

LEMMA NextRefines ==
  InOrder /\ TimingInv /\ TimingInv' /\ [Next]_vars => [Abstract!ANext]_(Abstract!avars)
<1>. SUFFICES ASSUME InOrder, TimingInv, TimingInv', [Next]_vars
              PROVE  [Abstract!ANext]_(Abstract!avars)
  OBVIOUS
<1>1. UNCHANGED <<ConfigMap, AgeMap, Unserved, queue>> => UNCHANGED Abstract!avars
  BY DEF Abstract!avars, ConfigMap, AgeMap
<1>2. CASE Quiet
  BY <1>1, <1>2, QuietStutters
<1>3. CASE StoreField("active")
  BY <1>3, Activate, ActivateRefines DEF Abstract!ANext
<1>4. CASE StoreField("stop")
  BY <1>4, Deactivate, DeactivateRefines DEF Abstract!ANext
<1>5. CASE RunPending
  BY <1>5, PollRefines DEF Abstract!ANext
<1>6. CASE SysTick
  BY <1>6, TickRefines DEF Abstract!ANext
<1>7. CASE SkipSlot
  BY <1>1, <1>7, SkipRefines
<1>8. CASE \E t \in Timers : Fire(t)
  BY <1>8, FireRefines DEF Abstract!ANext
<1>9. CASE UNCHANGED vars
  BY <1>1, <1>9 DEF vars, ConfigMap, AgeMap, Armed, InPool, Config, Elapsed, Off, Unserved, Due
<1>. QED
  BY <1>2, <1>3, <1>4, <1>5, <1>6, <1>7, <1>8, <1>9, StepKinds

(* timer.c implements AbstractTimer: neither the pool, nor the stores of   *)
(* init and deinit, nor the width of the tick counter can be observed.     *)
THEOREM ImplementsTimer == InOrder => (Spec => AbstractSpec)
<1>. SUFFICES ASSUME InOrder PROVE Spec => AbstractSpec
  OBVIOUS
<1>1. Spec => []TimingInv
  BY TimingInvariant
<1>2. TimingInv /\ TimingInv' /\ [Next]_vars => [Abstract!ANext]_(Abstract!avars)
  BY NextRefines
<1>. QED
  BY <1>1, <1>2, InitRefines, PTL DEF Spec, AbstractSpec, Abstract!Spec

=============================================================================
