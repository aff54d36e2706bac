------------------------------- MODULE PinIrq -------------------------------
(***************************************************************************)
(* Pin interrupts: Pin.irq of pin.c, GPIO_Handler of main.c and            *)
(* machine_pin_dispatch_irq, with the GPIO block and the NVIC they program.*)
(*                                                                         *)
(* irq() is a sequence of stores, to the handler table and to device       *)
(* registers, taken in program order; an edge may come, and the interrupt  *)
(* run, between any two.                                                   *)
(* An interrupt that is enabled and pending runs before the main thread    *)
(* goes on, and is not interrupted itself.                                 *)
(***************************************************************************)
EXTENDS Sched, Integers, FiniteSets

CONSTANTS
  Pins,         (* the pins of the device                                  *)
  Handlers,     (* the functions scripts pass as handler=                  *)
  None,         (* mp_const_none                                           *)
  NULL,         (* the null pointer: the table's content at start          *)
  Triggers      (* the trigger= arguments scripts pass                     *)

ASSUME PinIrqAssumption ==
  /\ None \notin Handlers /\ NULL \notin Handlers /\ None # NULL
  /\ NULL \notin Pins
  /\ Triggers \subseteq {1, 2, 3}

VARIABLES
  pin_obj,          (* pins whose Pin object exists                        *)
  pin_irq_handler,  (* the handler table                                   *)
  inten, rising,    (* INTEN and INTPOL: sets of pins                      *)
  status,           (* INTSTATUS                                           *)
  nvicen, pend,     (* the NVIC's enable and pending bits                  *)
  queue,            (* the scheduler's queue of <<handler, pin>>           *)
  call,             (* the irq() call under way, if any                    *)
  todo,             (* its stores that are still to commit, in order       *)
  (* History: *)
  wanted,           (* the trigger asked for with the stored handler       *)
  seen              (* the edge that last raised each pin's status         *)

gpio    == <<inten, rising, status>>
nvic    == <<nvicen, pend>>
history == <<wanted, seen>>
vars    == <<pin_obj, pin_irq_handler, gpio, nvic, queue, call, todo, history>>

-----------------------------------------------------------------------------
(* Data *)

Edges  == {"rising", "falling"}
Asked(trigger) == CASE trigger = 1 -> {"rising"}
                    [] trigger = 2 -> {"falling"}
                    [] trigger = 3 -> Edges

NoCall == [pin |-> NULL]

(* Mutants: the handler stored last; the NVIC left out; INTENCLR left out. *)
MutArmLast   == <<"polarity", "clear", "enable", "iser", "handler">>
MutArmNoIser == <<"handler", "polarity", "clear", "enable">>

MutDisarmIcer == <<"icer", "none">>

(* The stores of irq(handler, trigger), `polarity' with INTTYPESET, and of *)
(* irq(None).                                                              *)
ArmStores    == <<"handler", "polarity", "clear", "enable", "iser">>
DisarmStores == <<"disable", "icer", "none">>

StoreNames == {"handler", "polarity", "clear", "enable", "iser", "disable", "icer", "none"}

(* Interrupts that run before the main thread does. *)
Ready == nvicen \cap pend

-----------------------------------------------------------------------------
(* Main thread *)

(* Pin(p). *)
MakeNew(p) ==
  /\ Ready = {} /\ call = NoCall
  /\ pin_obj' = pin_obj \cup {p}
  /\ UNCHANGED <<pin_irq_handler, gpio, nvic, queue, call, todo, history>>

(* irq(h, t) and irq(None), arguments parsed. *)
IrqCall(p, h, t) ==
  /\ Ready = {} /\ call = NoCall
  /\ p \in pin_obj
  /\ call' = [pin |-> p, handler |-> h, trigger |-> t]
  /\ todo' = IF h = None THEN DisarmStores ELSE ArmStores
  /\ UNCHANGED <<pin_obj, pin_irq_handler, gpio, nvic, queue, history>>

(* What each store does, on pin p of the call. *)
StoreHandler(s, p) ==
  /\ s \in {"handler", "none"}
  /\ pin_irq_handler' = [pin_irq_handler EXCEPT ![p] = call.handler]
  /\ wanted' = [wanted EXCEPT ![p] = IF s = "none" THEN {} ELSE Asked(call.trigger)]
  /\ UNCHANGED <<gpio, nvic, seen>>

(* One polarity per pin: rising if asked for, even when falling is too.    *)
(* The mutant never clears INTPOL.                                         *)
MutStorePolarity(s, p) ==
  /\ s = "polarity"
  /\ rising' = IF "rising" \in Asked(call.trigger) THEN rising \cup {p} ELSE rising
  /\ UNCHANGED <<pin_irq_handler, inten, status, nvic, history>>

StorePolarity(s, p) ==
  /\ s = "polarity"
  /\ rising' = IF "rising" \in Asked(call.trigger) THEN rising \cup {p} ELSE rising \ {p}
  /\ UNCHANGED <<pin_irq_handler, inten, status, nvic, history>>

StoreStatus(s, p) ==
  /\ s = "clear"
  /\ status' = status \ {p}
  /\ UNCHANGED <<pin_irq_handler, inten, rising, nvic, history>>

StoreEnable(s, p) ==
  /\ s \in {"enable", "disable"}
  /\ inten' = IF s = "enable" THEN inten \cup {p} ELSE inten \ {p}
  /\ UNCHANGED <<pin_irq_handler, rising, status, nvic, history>>

StoreNvic(s, p) ==
  /\ s \in {"iser", "icer"}
  /\ nvicen' = IF s = "iser" THEN nvicen \cup {p} ELSE nvicen \ {p}
  /\ UNCHANGED <<pin_irq_handler, gpio, pend, history>>

(* One store commits; with the last one the call returns. *)
Store ==
  /\ Ready = {} /\ call # NoCall
  /\ \/ StoreHandler(Head(todo), call.pin)
     \/ StorePolarity(Head(todo), call.pin)
     \/ StoreStatus(Head(todo), call.pin)
     \/ StoreEnable(Head(todo), call.pin)
     \/ StoreNvic(Head(todo), call.pin)
  /\ todo' = Tail(todo)
  /\ call' = IF todo' = <<>> THEN NoCall ELSE call
  /\ UNCHANGED <<pin_obj, queue>>

(* mp_handle_pending runs the oldest callback. *)
Poll ==
  /\ Ready = {} /\ call = NoCall
  /\ queue # <<>>
  /\ queue' = Tail(queue)
  /\ UNCHANGED <<pin_obj, pin_irq_handler, gpio, nvic, call, todo, history>>

-----------------------------------------------------------------------------
(* The device and the interrupt *)

(* The edges the settings of a pin catch. *)
Caught(p) == IF p \notin inten THEN {} ELSE IF p \in rising THEN {"rising"} ELSE {"falling"}

(* An edge at a pin.  The GPIO block sets INTSTATUS if the pin's interrupt *)
(* is enabled for that edge; its line to the NVIC raises the pending bit.  *)
Edge(p, e) ==
  /\ IF e \in Caught(p)
     THEN /\ status' = status \cup {p}
          /\ pend' = pend \cup {p}
          /\ seen' = [seen EXCEPT ![p] = e]
     ELSE UNCHANGED <<status, pend, seen>>
  /\ UNCHANGED <<pin_obj, pin_irq_handler, inten, rising, nvicen, queue, call, todo, wanted>>

(* Mutant of Dispatched: a callback is queued without a look at the        *)
(* queue's bound.                                                          *)
MutDispatched(p) ==
  IF pin_irq_handler[p] # None /\ p \in pin_obj
  THEN Append(queue, <<pin_irq_handler[p], p>>) ELSE queue

(* machine_pin_dispatch_irq *)
Dispatched(p) ==
  IF pin_irq_handler[p] # None /\ p \in pin_obj
  THEN Schedule(queue, <<pin_irq_handler[p], p>>) ELSE queue

(* PORT0_p_Handler: GPIO_Handler(p). *)
GPIO_Handler(p) ==
  /\ p \in Ready
  /\ pend' = pend \ {p}
  /\ status' = status \ {p}
  /\ queue' = Dispatched(p)
  /\ UNCHANGED <<pin_obj, pin_irq_handler, inten, rising, nvicen, call, todo, history>>

-----------------------------------------------------------------------------
Init ==
  /\ pin_obj = {}
  /\ pin_irq_handler = [p \in Pins |-> NULL]
  /\ inten = {} /\ rising = {} /\ status = {}
  /\ nvicen = {} /\ pend = {}
  /\ queue = <<>>
  /\ call = NoCall /\ todo = <<>>
  /\ wanted = [p \in Pins |-> {}]
  /\ seen = [p \in Pins |-> "rising"]

Script ==
  \/ \E p \in Pins : MakeNew(p) \/ \E h \in Handlers \cup {None}, t \in Triggers : IrqCall(p, h, t)
  \/ Store
  \/ Poll

Next == Script \/ \E p \in Pins : GPIO_Handler(p) \/ \E e \in Edges : Edge(p, e)

Spec == Init /\ [][Next]_vars

-----------------------------------------------------------------------------
(* Correctness *)

TypeOK ==
  /\ {inten, rising, status, nvicen, pend, pin_obj} \subseteq SUBSET Pins
  /\ pin_irq_handler \in [Pins -> Handlers \cup {None, NULL}]
  /\ queue \in Seq((Handlers \cup {None, NULL}) \X Pins) /\ Len(queue) <= SchedDepth
  /\ call \in {NoCall} \cup [pin : Pins, handler : Handlers \cup {None}, trigger : Triggers]
  /\ todo \in Seq(StoreNames)
  /\ wanted \in [Pins -> SUBSET Edges] /\ seen \in [Pins -> Edges]

(* The runtime is never handed a callback that cannot be called: the table *)
(* starts out NULL, which the handler does not test for, so irq() has to   *)
(* store the handler before it enables the interrupt.                      *)
CallableOnly == \A k \in DOMAIN queue : queue[k][1] \in Handlers

(* Between calls, a pin has a handler exactly when the GPIO block and the  *)
(* NVIC both let its interrupt through: no handler waits for an event that *)
(* is masked, and no interrupt fires for nobody.                           *)
ListensIffHandled ==
  \A p \in Pins : call.pin # p =>
    /\ pin_irq_handler[p] \in Handlers <=> p \in inten
    /\ p \in inten <=> p \in nvicen

(* irq() that replaces the handler of an armed pin has stored the handler  *)
(* but not yet the polarity.                                               *)
Swapping(p) == call.pin = p /\ \E k \in DOMAIN todo : todo[k] = "polarity"

(* A handler is scheduled for an edge of the kind it was registered for,   *)
(* not for one that was caught for its predecessor and stayed pending.     *)
(* The window between two stores of a replacing irq(), where the new       *)
(* handler can see an old edge, is the only exception.                     *)
OwnEdges ==
  [][\A p \in Pins : GPIO_Handler(p) /\ queue' # queue /\ ~Swapping(p)
       => seen[p] \in wanted[p]]_vars

(* A registered handler is told of every edge it asked for: between calls, *)
(* the settings of a pin catch all edges of its trigger.  This is so for   *)
(* the triggers 1 and 2; of the edges of trigger 3, "Rising | Falling      *)
(* (default)", the code asks the port for the rising ones only.            *)
WantedCaught == \A p \in Pins : call.pin # p => wanted[p] \subseteq Caught(p)

=============================================================================
