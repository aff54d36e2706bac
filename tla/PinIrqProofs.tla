---------------------------- MODULE PinIrqProofs ----------------------------
(***************************************************************************)
(* For every number of pins and handlers and any edges at any moment, the  *)
(* interrupt side of pin.c only ever schedules callables, and handlers and *)
(* interrupt enables agree between calls.                                  *)
(***************************************************************************)
EXTENDS PinIrq, TLAPS, SequenceTheorems

(* What remains of the two store sequences as a call proceeds.             *)
ToPolarize == <<"polarity", "clear", "enable", "iser">>
ToClear    == <<"clear", "enable", "iser">>
ToEnable   == <<"enable", "iser">>
ToUnmask   == <<"iser">>
ToMask     == <<"icer", "none">>
ToForget   == <<"none">>
Rests      == {ArmStores, ToPolarize, ToClear, ToEnable, ToUnmask, DisarmStores, ToMask, ToForget}

Handled(p) == pin_irq_handler[p] \in Handlers
Agree(p)   == (Handled(p) <=> p \in inten) /\ (p \in inten <=> p \in nvicen)

(* How far the call under way has brought its pin.                         *)
CallStage ==
  LET p == call.pin
  IN  \/ todo = ArmStores /\ call.handler \in Handlers /\ Agree(p)
      \/ todo \in {ToPolarize, ToClear, ToEnable} /\ Handled(p) /\ (p \in inten <=> p \in nvicen)
      \/ todo = ToUnmask /\ Handled(p) /\ p \in inten
      \/ todo = DisarmStores /\ call.handler = None /\ Agree(p)
      \/ /\ todo = ToMask /\ call.handler = None
         /\ p \notin inten /\ (Handled(p) <=> p \in nvicen)
      \/ todo = ToForget /\ call.handler = None /\ p \notin inten /\ p \notin nvicen

(* Pins whose interrupt the NVIC lets through have had a handler stored.   *)
NoNullEnabled == \A p \in Pins : p \in nvicen => pin_irq_handler[p] # NULL

IrqInv ==
  /\ TypeOK /\ CallableOnly /\ NoNullEnabled
  /\ \A p \in Pins : call.pin # p => Agree(p)
  /\ IF call = NoCall THEN todo = <<>> ELSE CallStage

-----------------------------------------------------------------------------
LEMMA ArmSteps ==
  /\ Head(ArmStores) = "handler"   /\ Tail(ArmStores) = ToPolarize
  /\ Head(ToPolarize) = "polarity" /\ Tail(ToPolarize) = ToClear
  /\ Head(ToClear) = "clear"       /\ Tail(ToClear) = ToEnable
  /\ Head(ToEnable) = "enable"     /\ Tail(ToEnable) = ToUnmask
  /\ Head(ToUnmask) = "iser"       /\ Tail(ToUnmask) = <<>>
BY DEF ArmStores, ToPolarize, ToClear, ToEnable, ToUnmask

LEMMA DisarmSteps ==
  /\ Head(DisarmStores) = "disable" /\ Tail(DisarmStores) = ToMask
  /\ Head(ToMask) = "icer"          /\ Tail(ToMask) = ToForget
  /\ Head(ToForget) = "none"        /\ Tail(ToForget) = <<>>
BY DEF DisarmStores, ToMask, ToForget

LEMMA RestsType ==
  ASSUME NEW r \in Rests
  PROVE  r \in Seq(StoreNames) /\ r # <<>>
<1>1. ArmStores \in Seq(StoreNames) /\ ArmStores # <<>>
  BY DEF ArmStores, StoreNames
<1>2. ToPolarize \in Seq(StoreNames) /\ ToPolarize # <<>>
  BY DEF ToPolarize, StoreNames
<1>3. ToClear \in Seq(StoreNames) /\ ToClear # <<>>
  BY DEF ToClear, StoreNames
<1>4. ToEnable \in Seq(StoreNames) /\ ToEnable # <<>>
  BY DEF ToEnable, StoreNames
<1>5. ToUnmask \in Seq(StoreNames) /\ ToUnmask # <<>>
  BY DEF ToUnmask, StoreNames
<1>6. DisarmStores \in Seq(StoreNames) /\ DisarmStores # <<>>
  BY DEF DisarmStores, StoreNames
<1>7. ToMask \in Seq(StoreNames) /\ ToMask # <<>>
  BY DEF ToMask, StoreNames
<1>8. ToForget \in Seq(StoreNames) /\ ToForget # <<>>
  BY DEF ToForget, StoreNames
<1>. QED
  BY <1>1, <1>2, <1>3, <1>4, <1>5, <1>6, <1>7, <1>8 DEF Rests

LEMMA InitIrq == Init => IrqInv
<1>. SUFFICES ASSUME Init PROVE IrqInv
  OBVIOUS
<1>1. TypeOK
  BY SchedDepthAssumption DEF Init, TypeOK, Edges
<1>2. CallableOnly /\ NoNullEnabled
  BY DEF Init, CallableOnly, NoNullEnabled
<1>3. \A p \in Pins : Agree(p)
  BY PinIrqAssumption DEF Init, Agree, Handled
<1>. QED
  BY <1>1, <1>2, <1>3 DEF Init, IrqInv

(* Pin(p), irq() parsed, and the poll of the scheduler.                    *)
LEMMA MakeNewIrq ==
  ASSUME IrqInv, NEW p \in Pins, MakeNew(p)
  PROVE  IrqInv'
<1>. USE DEF IrqInv, MakeNew, gpio, nvic, history
<1>1. TypeOK'
  BY DEF TypeOK
<1>2. CallableOnly' /\ NoNullEnabled'
  BY DEF CallableOnly, NoNullEnabled
<1>. QED
  BY <1>1, <1>2 DEF Agree, Handled

LEMMA IrqCallIrq ==
  ASSUME IrqInv, NEW p \in Pins, NEW h \in Handlers \cup {None}, NEW t \in Triggers,
         IrqCall(p, h, t)
  PROVE  IrqInv'
<1>. USE DEF IrqInv, IrqCall, gpio, nvic, history
<1>1. call' \in [pin : Pins, handler : Handlers \cup {None}, trigger : Triggers]
      /\ call'.pin = p /\ call'.handler = h
  OBVIOUS
<1>2. todo' \in Seq(StoreNames)
  BY RestsType DEF Rests
<1>3. TypeOK'
  BY <1>1, <1>2 DEF TypeOK
<1>4. CallableOnly' /\ NoNullEnabled'
  BY DEF CallableOnly, NoNullEnabled
<1>5. \A q \in Pins : Agree(q) /\ Agree(q)'
  BY PinIrqAssumption DEF Agree, Handled, NoCall
<1>6. call' # NoCall
  BY <1>1, PinIrqAssumption DEF NoCall
<1>7. CallStage'
  BY <1>1, <1>5, PinIrqAssumption DEF CallStage
<1>. QED
  BY <1>3, <1>4, <1>5, <1>6, <1>7

LEMMA PollIrq ==
  ASSUME IrqInv, Poll
  PROVE  IrqInv'
<1>. USE DEF IrqInv, Poll, gpio, nvic, history
<1>. DEFINE E == (Handlers \cup {None, NULL}) \X Pins
<1>1. queue \in Seq(E) /\ queue # <<>> /\ Len(queue) <= SchedDepth
  BY DEF TypeOK
<1>2. /\ Tail(queue) \in Seq(E) /\ Len(Tail(queue)) = Len(queue) - 1
      /\ \A k \in 1 .. Len(Tail(queue)) : Tail(queue)[k] = queue[k + 1]
  <2>. HIDE DEF E
  <2>. QED BY <1>1, HeadTailProperties
<1>3. TypeOK'
  BY <1>1, <1>2, SchedDepthAssumption DEF TypeOK
<1>4. CallableOnly'
  <2>1. \A k \in 1 .. Len(queue) : queue[k][1] \in Handlers
    BY <1>1 DEF CallableOnly
  <2>2. \A k \in 1 .. Len(Tail(queue)) : k + 1 \in 1 .. Len(queue)
    BY <1>1, <1>2
  <2>3. DOMAIN Tail(queue) = 1 .. Len(Tail(queue))
    BY <1>2
  <2>. QED
    BY <1>2, <2>1, <2>2, <2>3 DEF CallableOnly
<1>5. NoNullEnabled'
  BY DEF NoNullEnabled
<1>. QED
  BY <1>3, <1>4, <1>5 DEF Agree, Handled

-----------------------------------------------------------------------------
(* The stores of irq() *)

(* What every store needs: the pin of the call, and that the others are    *)
(* not touched.                                                            *)
LEMMA StoreFrame ==
  ASSUME IrqInv, Store
  PROVE  /\ call \in [pin : Pins, handler : Handlers \cup {None}, trigger : Triggers]
         /\ CallStage /\ UNCHANGED <<pin_obj, queue>>
         /\ todo' = Tail(todo) /\ call' = IF todo' = <<>> THEN NoCall ELSE call
BY DEF IrqInv, TypeOK, Store

LEMMA StoreType ==
  ASSUME IrqInv, Store
  PROVE  TypeOK'
<1>. USE DEF gpio, nvic, history
<1>1. call \in [pin : Pins, handler : Handlers \cup {None}, trigger : Triggers]
      /\ todo' = Tail(todo) /\ CallStage /\ UNCHANGED <<pin_obj, queue>>
      /\ call' \in {call, NoCall}
  BY StoreFrame
<1>2. TypeOK
  BY DEF IrqInv
<1>3. todo' \in Seq(StoreNames)
  <2>1. todo # <<>> /\ todo \in Seq(StoreNames)
    BY <1>1, RestsType DEF CallStage, Rests
  <2>. QED
    BY <1>1, <2>1, HeadTailProperties
<1>4. Asked(call.trigger) \subseteq Edges
  BY <1>1, PinIrqAssumption DEF Asked, Edges
<1>5. queue' \in Seq((Handlers \cup {None, NULL}) \X Pins) /\ Len(queue') <= SchedDepth
  BY <1>1, <1>2 DEF TypeOK
<1>6. /\ {inten', rising', status', nvicen', pend'} \subseteq SUBSET Pins
      /\ pin_irq_handler' \in [Pins -> Handlers \cup {None, NULL}]
      /\ wanted' \in [Pins -> SUBSET Edges] /\ seen' \in [Pins -> Edges]
  <2>1. CASE StoreHandler(Head(todo), call.pin)
    BY <1>1, <1>2, <1>4, <2>1 DEF StoreHandler, TypeOK
  <2>2. CASE StorePolarity(Head(todo), call.pin)
    BY <1>1, <1>2, <2>2 DEF StorePolarity, TypeOK
  <2>3. CASE StoreStatus(Head(todo), call.pin)
    BY <1>1, <1>2, <2>3 DEF StoreStatus, TypeOK
  <2>4. CASE StoreEnable(Head(todo), call.pin)
    BY <1>1, <1>2, <2>4 DEF StoreEnable, TypeOK
  <2>5. CASE StoreNvic(Head(todo), call.pin)
    BY <1>1, <1>2, <2>5 DEF StoreNvic, TypeOK
  <2>. QED
    BY <2>1, <2>2, <2>3, <2>4, <2>5 DEF Store
<1>. QED
  BY <1>1, <1>2, <1>3, <1>5, <1>6 DEF TypeOK

(* Each store takes its pin from one stage to the next.                    *)
LEMMA StoreIrq ==
  ASSUME IrqInv, Store
  PROVE  IrqInv'
<1>. USE DEF gpio, nvic, history
<1>. PICK p \in Pins : p = call.pin
  BY StoreFrame
<1>1. /\ call.handler \in Handlers \cup {None}
      /\ CallStage /\ UNCHANGED <<pin_obj, queue>> /\ call # NoCall
      /\ todo' = Tail(todo) /\ call' = IF todo' = <<>> THEN NoCall ELSE call
  BY StoreFrame, PinIrqAssumption DEF NoCall, Store
<1>2. TypeOK'
  BY StoreType
<1>3. CallableOnly'
  BY <1>1 DEF CallableOnly, IrqInv
<1>4. \A q \in Pins : q # p => /\ pin_irq_handler'[q] = pin_irq_handler[q]
                               /\ q \in inten' <=> q \in inten
                               /\ q \in nvicen' <=> q \in nvicen
  BY <1>1 DEF Store, StoreHandler, StorePolarity, StoreStatus, StoreEnable, StoreNvic, IrqInv, TypeOK
<1>5. \A q \in Pins : q # p => Agree(q)'
  BY <1>4 DEF Agree, Handled, IrqInv
<1>6. /\ pin_irq_handler'[p] = IF Head(todo) \in {"handler", "none"} THEN call.handler
                               ELSE pin_irq_handler[p]
      /\ p \in inten' <=> CASE Head(todo) = "enable" -> TRUE
                            [] Head(todo) = "disable" -> FALSE
                            [] OTHER -> p \in inten
      /\ p \in nvicen' <=> CASE Head(todo) = "iser" -> TRUE
                             [] Head(todo) = "icer" -> FALSE
                             [] OTHER -> p \in nvicen
  BY <1>1 DEF Store, StoreHandler, StorePolarity, StoreStatus, StoreEnable, StoreNvic, IrqInv, TypeOK
<1>7. p \in nvicen' => pin_irq_handler'[p] # NULL
  BY <1>1, <1>6, ArmSteps, DisarmSteps, PinIrqAssumption
     DEF CallStage, Agree, Handled, IrqInv, NoNullEnabled
<1>8. NoNullEnabled'
  BY <1>4, <1>7 DEF NoNullEnabled, IrqInv
<1>9. IF todo' = <<>> THEN Agree(p)' ELSE CallStage'
  <2>1. CASE todo = ArmStores
    BY <1>1, <1>6, <2>1, ArmSteps, DisarmSteps, RestsType DEF CallStage, Agree, Handled, Rests
  <2>2. CASE todo \in {ToPolarize, ToClear, ToEnable}
    BY <1>1, <1>6, <2>2, ArmSteps, DisarmSteps, RestsType DEF CallStage, Agree, Handled, Rests
  <2>3. CASE todo = ToUnmask
    BY <1>1, <1>6, <2>3, ArmSteps, DisarmSteps, RestsType DEF CallStage, Agree, Handled, Rests
  <2>4. CASE todo = DisarmStores
    BY <1>1, <1>6, <2>4, ArmSteps, DisarmSteps, RestsType DEF CallStage, Agree, Handled, Rests
  <2>5. CASE todo = ToMask
    BY <1>1, <1>6, <2>5, ArmSteps, DisarmSteps, RestsType DEF CallStage, Agree, Handled, Rests
  <2>6. CASE todo = ToForget
    BY <1>1, <1>6, <2>6, ArmSteps, DisarmSteps, RestsType, PinIrqAssumption DEF CallStage, Agree, Handled, Rests
  <2>. QED
    BY <1>1, <2>1, <2>2, <2>3, <2>4, <2>5, <2>6 DEF CallStage
<1>. QED
  BY <1>1, <1>2, <1>3, <1>5, <1>8, <1>9 DEF IrqInv

-----------------------------------------------------------------------------
(* The device and the handler *)

LEMMA EdgeIrq ==
  ASSUME IrqInv, NEW p \in Pins, NEW e \in Edges, Edge(p, e)
  PROVE  IrqInv'
<1>. USE DEF IrqInv, Edge
<1>1. TypeOK'
  BY DEF TypeOK
<1>2. CallableOnly' /\ NoNullEnabled'
  BY DEF CallableOnly, NoNullEnabled
<1>3. CallStage' <=> CallStage
  BY DEF CallStage, Agree, Handled
<1>. QED
  BY <1>1, <1>2, <1>3 DEF Agree, Handled

(* The handler that is dispatched is not NULL, since the interrupt was     *)
(* enabled, and not None, since that is tested.                            *)
LEMMA HandlerIrq ==
  ASSUME IrqInv, NEW p \in Pins, GPIO_Handler(p)
  PROVE  IrqInv'
<1>. USE DEF IrqInv, GPIO_Handler, history
<1>. DEFINE E == (Handlers \cup {None, NULL}) \X Pins
            entry == <<pin_irq_handler[p], p>>
<1>1. queue \in Seq(E) /\ Len(queue) <= SchedDepth /\ entry \in E
  BY DEF TypeOK
<1>2. \/ queue' = queue
      \/ /\ queue' = Append(queue, entry)
         /\ Len(queue) < SchedDepth /\ pin_irq_handler[p] \in Handlers
  <2>1. pin_irq_handler[p] # NULL
    BY DEF NoNullEnabled, Ready
  <2>2. pin_irq_handler[p] # None => pin_irq_handler[p] \in Handlers
    BY <2>1 DEF TypeOK
  <2>. QED
    BY <1>1, <2>2, SchedDepthAssumption DEF Dispatched, Schedule, SchedFull
<1>3. queue' \in Seq(E) /\ Len(queue') <= SchedDepth /\ CallableOnly'
  <2>1. CASE queue' = queue
    BY <1>1, <2>1 DEF CallableOnly
  <2>2. CASE queue' = Append(queue, entry) /\ Len(queue) < SchedDepth
             /\ pin_irq_handler[p] \in Handlers
    <3>. HIDE DEF E
    <3>1. /\ queue' \in Seq(E) /\ Len(queue') = Len(queue) + 1
          /\ \A k \in 1 .. Len(queue) : queue'[k] = queue[k]
          /\ queue'[Len(queue) + 1] = entry
      BY <1>1, <2>2, AppendProperties
    <3>2. \A k \in 1 .. Len(queue) : queue[k][1] \in Handlers
      BY <1>1 DEF CallableOnly
    <3>3. \A k \in 1 .. Len(queue') : k \in 1 .. Len(queue) \/ k = Len(queue) + 1
      BY <1>1, <3>1
    <3>4. DOMAIN queue' = 1 .. Len(queue')
      BY <3>1
    <3>5. entry[1] \in Handlers
      BY <2>2
    <3>6. CallableOnly'
      BY <3>1, <3>2, <3>3, <3>4, <3>5 DEF CallableOnly
    <3>. QED
      BY <1>1, <2>2, <3>1, <3>6, SchedDepthAssumption
  <2>. QED
    BY <1>2, <2>1, <2>2
<1>4. TypeOK'
  BY <1>3 DEF TypeOK
<1>5. NoNullEnabled'
  BY DEF NoNullEnabled
<1>6. CallStage' <=> CallStage
  BY DEF CallStage, Agree, Handled
<1>. QED
  BY <1>3, <1>4, <1>5, <1>6 DEF Agree, Handled

-----------------------------------------------------------------------------
(* Theorems *)

LEMMA NextIrq == IrqInv /\ [Next]_vars => IrqInv'
<1>. SUFFICES ASSUME IrqInv, [Next]_vars PROVE IrqInv'
  OBVIOUS
<1>1. CASE Script
  BY <1>1, MakeNewIrq, IrqCallIrq, StoreIrq, PollIrq DEF Script
<1>2. CASE \E p \in Pins : GPIO_Handler(p) \/ \E e \in Edges : Edge(p, e)
  BY <1>2, HandlerIrq, EdgeIrq
<1>3. CASE UNCHANGED vars
  BY <1>3 DEF IrqInv, TypeOK, CallableOnly, NoNullEnabled, CallStage, Agree, Handled,
              vars, gpio, nvic, history
<1>. QED
  BY <1>1, <1>2, <1>3 DEF Next

(* The inductive invariant holds in every reachable state of irq() and its *)
(* handlers.                                                               *)
THEOREM IrqInvariant == Spec => []IrqInv
<1>. QED
  BY InitIrq, NextIrq, PTL DEF Spec

(* The queue stays within its depth and every table well typed.            *)
THEOREM IrqTypeCorrect == Spec => []TypeOK
<1>1. IrqInv => TypeOK
  BY DEF IrqInv
<1>. QED
  BY <1>1, IrqInvariant, PTL

(* No interleaving of irq() with edges hands the runtime NULL or None.     *)
THEOREM OnlyCallablesScheduled == Spec => []CallableOnly
<1>1. IrqInv => CallableOnly
  BY DEF IrqInv
<1>. QED
  BY <1>1, IrqInvariant, PTL

(* Between calls of irq(), pins with a handler are exactly those whose     *)
(* interrupt is enabled, in the GPIO block and in the NVIC.                *)
THEOREM HandledIffEnabled == Spec => []ListensIffHandled
<1>1. IrqInv => ListensIffHandled
  BY DEF IrqInv, ListensIffHandled, Agree, Handled
<1>. QED
  BY <1>1, IrqInvariant, PTL

-----------------------------------------------------------------------------
(***************************************************************************)
(* For every number of pins and handlers, a handler set with Pin.irq() is  *)
(* scheduled for edges it asked for and for no others.  The argument is    *)
(* that a store of irq() only commits once no interrupt of its pin waits,  *)
(* so that an edge caught for one handler is never left over for the next. *)
(***************************************************************************)

(* irq() is about to give pin p a new handler or its polarity.             *)
Turning(p) == call.pin = p /\ todo \in {ArmStores, ToPolarize}

(* An interrupt that waits is enabled somewhere, and will reach a handler  *)
(* that asked for its edge; so will the edges the settings catch.          *)
Fits(p) ==
  /\ p \in pend => p \in inten \/ p \in nvicen
  /\ ~Turning(p) => /\ Caught(p) \subseteq wanted[p]
                    /\ p \in pend => seen[p] \in wanted[p]

(* What irq() has settled between its first store and the one that lets    *)
(* edges through.                                                          *)
Settled(p) ==
  /\ call.pin = p /\ todo \in {ToPolarize, ToClear, ToEnable} => wanted[p] = Asked(call.trigger)
  /\ call.pin = p /\ todo \in {ToClear, ToEnable}
       => (p \in rising <=> "rising" \in Asked(call.trigger))

(* Nothing a handler asked for is masked. *)
Serves(p) ==
  call.pin # p \/ todo \in {ArmStores, DisarmStores, ToUnmask} => wanted[p] \subseteq Caught(p)

EdgeInv ==
  /\ IrqInv
  /\ \A p \in Pins : Fits(p) /\ Settled(p) /\ (3 \notin Triggers => Serves(p))

-----------------------------------------------------------------------------
LEMMA AskedEdges ==
  ASSUME NEW t \in Triggers
  PROVE  /\ Asked(t) \in SUBSET Edges
         /\ "rising" \in Asked(t) \/ Asked(t) = {"falling"}
         /\ t # 3 => Asked(t) \in {{"rising"}, {"falling"}}
<1>1. t = 1 \/ t = 2 \/ t = 3
  BY PinIrqAssumption
<1>2. CASE t = 1
  BY <1>2 DEF Asked, Edges
<1>3. CASE t = 2
  BY <1>3 DEF Asked, Edges
<1>4. CASE t = 3
  BY <1>4 DEF Asked, Edges
<1>. QED
  BY <1>1, <1>2, <1>3, <1>4

(* The stages of a call are distinct.                                   *)
LEMMA StagesDiffer ==
  /\ ArmStores # ToPolarize /\ ArmStores # ToClear /\ ArmStores # ToEnable /\ ArmStores # ToUnmask
  /\ ArmStores # DisarmStores /\ ArmStores # <<>>
  /\ ToPolarize # ToClear /\ ToPolarize # ToEnable /\ ToPolarize # ToUnmask /\ ToPolarize # DisarmStores
  /\ ToPolarize # <<>>
  /\ ToClear # ToEnable /\ ToClear # ToUnmask /\ ToClear # DisarmStores /\ ToClear # <<>>
  /\ ToEnable # ToUnmask /\ ToEnable # DisarmStores /\ ToEnable # <<>>
  /\ ToUnmask # DisarmStores /\ ToUnmask # <<>>
  /\ DisarmStores # <<>>
  /\ ToMask # ArmStores /\ ToMask # ToPolarize /\ ToMask # ToClear /\ ToMask # ToEnable
  /\ ToMask # ToUnmask /\ ToMask # DisarmStores /\ ToMask # <<>>
  /\ ToForget # ArmStores /\ ToForget # ToPolarize /\ ToForget # ToClear /\ ToForget # ToEnable
  /\ ToForget # ToUnmask /\ ToForget # DisarmStores /\ ToForget # <<>>
<1>1. /\ Len(ArmStores) = 5 /\ Len(ToPolarize) = 4 /\ Len(ToClear) = 3 /\ Len(ToEnable) = 2
      /\ Len(ToUnmask) = 1 /\ Len(DisarmStores) = 3 /\ Len(ToMask) = 2 /\ Len(ToForget) = 1
  BY DEF ArmStores, ToPolarize, ToClear, ToEnable, ToUnmask, DisarmStores, ToMask, ToForget
<1>2. ToClear # DisarmStores /\ ToMask # ToEnable /\ ToForget # ToUnmask
  BY DEF ToClear, ToEnable, ToUnmask, DisarmStores, ToMask, ToForget
<1>3. \A r \in Rests : r # <<>>
  BY RestsType
<1>4. /\ ArmStores # <<>> /\ ToPolarize # <<>> /\ ToClear # <<>> /\ ToEnable # <<>>
      /\ ToUnmask # <<>> /\ DisarmStores # <<>> /\ ToMask # <<>> /\ ToForget # <<>>
  BY <1>3 DEF Rests
<1>5. /\ ArmStores # ToPolarize /\ ArmStores # ToClear /\ ArmStores # ToEnable
      /\ ArmStores # ToUnmask /\ ArmStores # DisarmStores
  BY <1>1
<1>6. /\ ToPolarize # ToClear /\ ToPolarize # ToEnable /\ ToPolarize # ToUnmask
      /\ ToPolarize # DisarmStores
  BY <1>1
<1>7. /\ ToClear # ToEnable /\ ToClear # ToUnmask /\ ToEnable # ToUnmask
      /\ ToEnable # DisarmStores /\ ToUnmask # DisarmStores
  BY <1>1
<1>8. /\ ToMask # ArmStores /\ ToMask # ToPolarize /\ ToMask # ToClear
      /\ ToMask # ToUnmask /\ ToMask # DisarmStores
  BY <1>1
<1>9. /\ ToForget # ArmStores /\ ToForget # ToPolarize /\ ToForget # ToClear
      /\ ToForget # ToEnable /\ ToForget # DisarmStores
  BY <1>1
<1>. QED
  BY <1>2, <1>4, <1>5, <1>6, <1>7, <1>8, <1>9

LEMMA InitEdge == Init => EdgeInv
<1>. SUFFICES ASSUME Init PROVE EdgeInv
  OBVIOUS
<1>1. IrqInv
  BY InitIrq
<1>2. \A p \in Pins : Caught(p) = {} /\ wanted[p] = {} /\ p \notin pend /\ call.pin # p
  BY PinIrqAssumption DEF Init, Caught, NoCall
<1>. QED
  BY <1>1, <1>2 DEF EdgeInv, Fits, Settled, Serves

-----------------------------------------------------------------------------
(* Steps that change no register *)

LEMMA QuietEdge ==
  ASSUME EdgeInv, IrqInv', UNCHANGED <<gpio, nvic, call, todo, history>>
  PROVE  EdgeInv'
BY DEF EdgeInv, Fits, Settled, Serves, Turning, Caught, gpio, nvic, history

LEMMA IrqCallEdge ==
  ASSUME EdgeInv, NEW p \in Pins, NEW h \in Handlers \cup {None}, NEW t \in Triggers,
         IrqCall(p, h, t)
  PROVE  EdgeInv'
<1>1. IrqInv'
  BY IrqCallIrq DEF EdgeInv
<1>2. UNCHANGED <<inten, rising, status, nvicen, pend, wanted, seen>>
  BY DEF IrqCall, gpio, nvic, history
<1>3. call'.pin = p /\ todo' \in {ArmStores, DisarmStores}
  BY DEF IrqCall
<1>4. \A q \in Pins : call.pin # q
  BY PinIrqAssumption DEF IrqCall, NoCall
<1>5. todo' \notin {ToPolarize, ToClear, ToEnable}
  BY <1>3, StagesDiffer
<1>. QED
  BY <1>1, <1>2, <1>3, <1>4, <1>5 DEF EdgeInv, Fits, Settled, Serves, Turning, Caught

LEMMA EdgeEdge ==
  ASSUME EdgeInv, NEW p \in Pins, NEW e \in Edges, Edge(p, e)
  PROVE  EdgeInv'
<1>1. IrqInv'
  BY EdgeIrq DEF EdgeInv
<1>2. UNCHANGED <<inten, rising, nvicen, call, todo, wanted>>
  BY DEF Edge
<1>3. \A q \in Pins : Caught(q)' = Caught(q)
  BY <1>2 DEF Caught
<1>4. \A q \in Pins : q \in pend' => \/ q \in pend /\ seen'[q] = seen[q]
                                     \/ q \in inten /\ seen'[q] \in Caught(q)
  BY DEF Edge, Caught, EdgeInv, IrqInv, TypeOK
<1>. QED
  BY <1>1, <1>2, <1>3, <1>4 DEF EdgeInv, Fits, Settled, Serves, Turning

LEMMA HandlerEdge ==
  ASSUME EdgeInv, NEW p \in Pins, GPIO_Handler(p)
  PROVE  EdgeInv'
<1>1. IrqInv'
  BY HandlerIrq DEF EdgeInv
<1>2. UNCHANGED <<inten, rising, nvicen, call, todo, wanted, seen>> /\ pend' \subseteq pend
  BY DEF GPIO_Handler, history
<1>3. \A q \in Pins : Caught(q)' = Caught(q)
  BY <1>2 DEF Caught
<1>. QED
  BY <1>1, <1>2, <1>3 DEF EdgeInv, Fits, Settled, Serves, Turning

-----------------------------------------------------------------------------
(* The stores of irq() *)

(* A store meets no interrupt of its pin: what waits is enabled somewhere, *)
(* and if the NVIC let it through it would have come first.                *)
LEMMA StoreQuiet ==
  ASSUME EdgeInv, Store, todo # ToUnmask
  PROVE  call.pin \notin pend
<1>1. call.pin \in Pins /\ CallStage /\ Ready = {}
  BY StoreFrame DEF EdgeInv, Store
<1>2. call.pin \in inten => call.pin \in nvicen \/ todo \in {ToUnmask}
  BY <1>1 DEF CallStage, Agree
<1>. QED
  BY <1>1, <1>2 DEF EdgeInv, Fits, Ready

(* What a store does to the registers of its pin, and to no others.        *)
LEMMA StoreEffect ==
  ASSUME EdgeInv, Store, NEW p \in Pins, call.pin = p
  PROVE  /\ pend' = pend /\ seen' = seen
         /\ wanted'[p] = IF Head(todo) = "handler" THEN Asked(call.trigger)
                         ELSE IF Head(todo) = "none" THEN {} ELSE wanted[p]
         /\ p \in rising' <=> IF Head(todo) = "polarity" THEN "rising" \in Asked(call.trigger)
                              ELSE p \in rising
         /\ p \in inten' <=> Head(todo) = "enable" \/ (Head(todo) # "disable" /\ p \in inten)
         /\ p \in nvicen' <=> Head(todo) = "iser" \/ (Head(todo) # "icer" /\ p \in nvicen)
         /\ \A q \in Pins : q # p => /\ wanted'[q] = wanted[q]
                                     /\ q \in rising' <=> q \in rising
                                     /\ q \in inten' <=> q \in inten
                                     /\ q \in nvicen' <=> q \in nvicen
<1>. USE DEF gpio, nvic, history
<1>1. wanted \in [Pins -> SUBSET Edges]
  BY DEF EdgeInv, IrqInv, TypeOK
<1>2. CASE StoreHandler(Head(todo), call.pin)
  BY <1>1, <1>2 DEF StoreHandler
<1>3. CASE StorePolarity(Head(todo), call.pin)
  BY <1>3 DEF StorePolarity
<1>4. CASE StoreStatus(Head(todo), call.pin)
  BY <1>4 DEF StoreStatus
<1>5. CASE StoreEnable(Head(todo), call.pin)
  BY <1>5 DEF StoreEnable
<1>6. CASE StoreNvic(Head(todo), call.pin)
  BY <1>6 DEF StoreNvic
<1>. QED
  BY <1>2, <1>3, <1>4, <1>5, <1>6 DEF Store

LEMMA StoreEdge ==
  ASSUME EdgeInv, Store
  PROVE  EdgeInv'
<1>. PICK p \in Pins : p = call.pin
  BY StoreFrame DEF EdgeInv
<1>1. /\ call.trigger \in Triggers /\ CallStage
      /\ todo' = Tail(todo) /\ call' = IF todo' = <<>> THEN NoCall ELSE call
  BY StoreFrame DEF EdgeInv
<1>2. IrqInv'
  BY StoreIrq DEF EdgeInv
<1>3. todo # ToUnmask => p \notin pend'
  BY StoreQuiet, StoreEffect
<1>4. \A q \in Pins : q # p => (Fits(q) /\ Settled(q) /\ (3 \notin Triggers => Serves(q)))'
  <2>. SUFFICES ASSUME NEW q \in Pins, q # p
                PROVE  (Fits(q) /\ Settled(q) /\ (3 \notin Triggers => Serves(q)))'
    OBVIOUS
  <2>1. call.pin # q /\ call'.pin # q
    BY <1>1, PinIrqAssumption DEF NoCall
  <2>2. Caught(q)' = Caught(q) /\ wanted'[q] = wanted[q] /\ seen' = seen /\ pend' = pend
        /\ (q \in inten' <=> q \in inten) /\ (q \in nvicen' <=> q \in nvicen)
    BY StoreEffect DEF Caught
  <2>. QED
    BY <2>1, <2>2 DEF EdgeInv, Fits, Settled, Serves, Turning
<1>5. (Fits(p) /\ Settled(p) /\ (3 \notin Triggers => Serves(p)))'
  <2>. DEFINE A == Asked(call.trigger)
  <2>1. Fits(p) /\ Settled(p) /\ (3 \notin Triggers => Serves(p))
    BY DEF EdgeInv
  <2>2. /\ wanted'[p] = IF Head(todo) = "handler" THEN A
                         ELSE IF Head(todo) = "none" THEN {} ELSE wanted[p]
        /\ p \in rising' <=> IF Head(todo) = "polarity" THEN "rising" \in A ELSE p \in rising
        /\ p \in inten' <=> Head(todo) = "enable" \/ (Head(todo) # "disable" /\ p \in inten)
        /\ p \in nvicen' <=> Head(todo) = "iser" \/ (Head(todo) # "icer" /\ p \in nvicen)
        /\ pend' = pend /\ seen' = seen
    BY StoreEffect
  <2>3. /\ "rising" \in A \/ A = {"falling"}
        /\ 3 \notin Triggers => A \in {{"rising"}, {"falling"}}
    BY <1>1, AskedEdges
  <2>4. todo' # <<>> => call' = call
    BY <1>1
  <2>5. todo' = <<>> => call'.pin # p
    BY <1>1, PinIrqAssumption DEF NoCall
  <2>. HIDE DEF A
  <2>6. CASE todo = ArmStores
    <3>1. todo' = ToPolarize /\ Head(todo) = "handler"
      BY <1>1, <2>6, ArmSteps
    <3>2. call' = call
      BY <2>4, <3>1, StagesDiffer
    <3>. QED
      BY <1>1, <1>3, <2>1, <2>2, <2>3, <2>6, <3>1, <3>2, StagesDiffer DEF Fits, Settled, Serves, Turning, Caught, A
  <2>7. CASE todo = ToPolarize
    <3>1. todo' = ToClear /\ Head(todo) = "polarity"
      BY <1>1, <2>7, ArmSteps
    <3>2. call' = call
      BY <2>4, <3>1, StagesDiffer
    <3>. QED
      BY <1>1, <1>3, <2>1, <2>2, <2>3, <2>7, <3>1, <3>2, StagesDiffer DEF Fits, Settled, Serves, Turning, Caught, A
  <2>8. CASE todo = ToClear
    <3>1. todo' = ToEnable /\ Head(todo) = "clear"
      BY <1>1, <2>8, ArmSteps
    <3>2. call' = call
      BY <2>4, <3>1, StagesDiffer
    <3>. QED
      BY <1>1, <1>3, <2>1, <2>2, <2>3, <2>8, <3>1, <3>2, StagesDiffer DEF Fits, Settled, Serves, Turning, Caught, A
  <2>9. CASE todo = ToEnable
    <3>1. todo' = ToUnmask /\ Head(todo) = "enable"
      BY <1>1, <2>9, ArmSteps
    <3>2. call' = call
      BY <2>4, <3>1, StagesDiffer
    <3>. QED
      BY <1>1, <1>3, <2>1, <2>2, <2>3, <2>9, <3>1, <3>2, StagesDiffer DEF Fits, Settled, Serves, Turning, Caught, A
  <2>10. CASE todo = ToUnmask
    <3>1. todo' = <<>> /\ Head(todo) = "iser"
      BY <1>1, <2>10, ArmSteps
    <3>2. call'.pin # p
      BY <2>5, <3>1
    <3>. QED
      BY <1>1, <1>3, <2>1, <2>2, <2>3, <2>10, <3>1, <3>2, StagesDiffer DEF Fits, Settled, Serves, Turning, Caught, A
  <2>11. CASE todo = DisarmStores
    <3>1. todo' = ToMask /\ Head(todo) = "disable"
      BY <1>1, <2>11, DisarmSteps
    <3>2. call' = call
      BY <2>4, <3>1, StagesDiffer
    <3>. QED
      BY <1>1, <1>3, <2>1, <2>2, <2>3, <2>11, <3>1, <3>2, StagesDiffer DEF Fits, Settled, Serves, Turning, Caught, A
  <2>12. CASE todo = ToMask
    <3>1. todo' = ToForget /\ Head(todo) = "icer"
      BY <1>1, <2>12, DisarmSteps
    <3>2. call' = call
      BY <2>4, <3>1, StagesDiffer
    <3>. QED
      BY <1>1, <1>3, <2>1, <2>2, <2>3, <2>12, <3>1, <3>2, StagesDiffer DEF Fits, Settled, Serves, Turning, Caught, A, CallStage, Handled
  <2>13. CASE todo = ToForget
    <3>1. todo' = <<>> /\ Head(todo) = "none"
      BY <1>1, <2>13, DisarmSteps
    <3>2. call'.pin # p
      BY <2>5, <3>1
    <3>. QED
      BY <1>1, <1>3, <2>1, <2>2, <2>3, <2>13, <3>1, <3>2, StagesDiffer DEF Fits, Settled, Serves, Turning, Caught, A, CallStage, Handled
  <2>. QED
    BY <1>1, <2>6, <2>7, <2>8, <2>9, <2>10, <2>11, <2>12, <2>13 DEF CallStage
<1>. QED
  BY <1>2, <1>4, <1>5 DEF EdgeInv

-----------------------------------------------------------------------------
(* Theorems *)

LEMMA NextEdge == EdgeInv /\ [Next]_vars => EdgeInv'
<1>. SUFFICES ASSUME EdgeInv, [Next]_vars PROVE EdgeInv'
  OBVIOUS
<1>0. IrqInv'
  BY NextIrq DEF EdgeInv
<1>1. ASSUME NEW p \in Pins, MakeNew(p) PROVE EdgeInv'
  BY <1>0, <1>1, QuietEdge DEF MakeNew
<1>2. ASSUME NEW p \in Pins, NEW h \in Handlers \cup {None}, NEW t \in Triggers, IrqCall(p, h, t)
      PROVE  EdgeInv'
  BY <1>2, IrqCallEdge
<1>3. CASE Store
  BY <1>3, StoreEdge
<1>4. CASE Poll
  BY <1>0, <1>4, QuietEdge DEF Poll
<1>5. CASE \E p \in Pins : GPIO_Handler(p) \/ \E e \in Edges : Edge(p, e)
  BY <1>5, HandlerEdge, EdgeEdge
<1>6. CASE UNCHANGED vars
  BY <1>0, <1>6, QuietEdge DEF vars
<1>. QED
  BY <1>1, <1>2, <1>3, <1>4, <1>5, <1>6 DEF Next, Script

(* The inductive invariant EdgeInv: what irq() has settled at each of its  *)
(* stores, and that no interrupt that waits is meant for somebody else.    *)
THEOREM EdgeInvariant == Spec => []EdgeInv
<1>. QED
  BY InitEdge, NextEdge, PTL DEF Spec

(* With the triggers 1 and 2, no edge that a handler asked for is masked   *)
(* between calls of irq(), whatever the pin was set to before.             *)
THEOREM HandlersAreTold == 3 \notin Triggers => (Spec => []WantedCaught)
<1>. SUFFICES ASSUME 3 \notin Triggers PROVE Spec => []WantedCaught
  OBVIOUS
<1>1. EdgeInv => WantedCaught
  BY DEF EdgeInv, Serves, WantedCaught
<1>. QED
  BY <1>1, EdgeInvariant, PTL

(* No handler is scheduled for an edge caught for its predecessor, outside *)
(* the window in which irq() replaces it.                                  *)
THEOREM EdgesAreOwn == Spec => OwnEdges
<1>1. EdgeInv /\ [Next]_vars
        => [\A p \in Pins : GPIO_Handler(p) /\ queue' # queue /\ ~Swapping(p)
              => seen[p] \in wanted[p]]_vars
  <2>. SUFFICES ASSUME EdgeInv, NEW p \in Pins, GPIO_Handler(p), ~Swapping(p)
                PROVE  seen[p] \in wanted[p]
    OBVIOUS
  <2>1. p \in pend
    BY DEF GPIO_Handler, Ready
  <2>2. ArmStores[2] = "polarity" /\ 2 \in DOMAIN ArmStores
        /\ ToPolarize[1] = "polarity" /\ 1 \in DOMAIN ToPolarize
    BY DEF ArmStores, ToPolarize
  <2>3. ~Turning(p)
    BY <2>2 DEF Turning, Swapping
  <2>. QED
    BY <2>1, <2>3 DEF EdgeInv, Fits
<1>. QED
  BY <1>1, EdgeInvariant, PTL DEF Spec, OwnEdges

=============================================================================
