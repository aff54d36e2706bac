--------------------------- MODULE AbstractTimer ---------------------------
(***************************************************************************)
(* What machine.Timer promises a script, without the pool, the stores, the *)
(* 32-bit tick counter or the loop of the handler.  A timer is off or      *)
(* armed with one configuration; it ages by one each tick; it fires in the *)
(* tick its age reaches the period, posts its own callback at most once    *)
(* per period, and a one-shot is off after it has fired.                   *)
(***************************************************************************)
EXTENDS Sched

CONSTANTS
  Timers, Callbacks, None,
  Periods,
  MaxLate      (* ticks an arming may take effect late *)

VARIABLES
  config,      (* the arguments of the init that armed each timer, or Off  *)
  age,         (* ticks since it was armed or last fired                   *)
  due,         (* timers that fire before the next tick                    *)
  queue        (* callbacks waiting for the script to poll                 *)

avars == <<config, age, due, queue>>

Off     == [period |-> 0]
Configs == [period : Periods, mode : {"ONE_SHOT", "PERIODIC"}, callback : Callbacks \cup {None}]

AInit ==
  /\ config = [t \in Timers |-> Off]
  /\ age = [t \in Timers |-> 0]
  /\ due = {}
  /\ queue = <<>>

(* init(): all arguments take effect together. *)
Arm(t, c) ==
  /\ due = {}
  /\ config[t] = Off
  /\ config' = [config EXCEPT ![t] = c]
  /\ \E late \in 0 .. MaxLate : age' = [age EXCEPT ![t] = late]
  /\ UNCHANGED <<due, queue>>

(* deinit(). *)
Disarm(t) ==
  /\ due = {}
  /\ config' = [config EXCEPT ![t] = Off]
  /\ age' = [age EXCEPT ![t] = 0]
  /\ UNCHANGED <<due, queue>>

(* A millisecond passes; nothing that is due may be skipped. *)
Tick ==
  /\ due = {}
  /\ age' = [t \in Timers |-> IF config[t] = Off THEN 0 ELSE age[t] + 1]
  /\ due' = {t \in Timers : config[t] # Off /\ age'[t] >= config[t].period}
  /\ UNCHANGED <<config, queue>>

Shoot(t) ==
  /\ t \in due
  /\ due' = due \ {t}
  /\ age' = [age EXCEPT ![t] = 0]
  /\ config' = IF config[t].mode = "ONE_SHOT" THEN [config EXCEPT ![t] = Off] ELSE config
  /\ queue' = IF config[t].callback = None THEN queue
              ELSE Schedule(queue, <<config[t].callback, t>>)

(* The script polls and the oldest callback runs. *)
Poll ==
  /\ due = {}
  /\ queue # <<>>
  /\ queue' = Tail(queue)
  /\ UNCHANGED <<config, age, due>>

ANext ==
  \/ \E t \in Timers : Disarm(t) \/ Shoot(t) \/ \E c \in Configs : Arm(t, c)
  \/ Tick
  \/ Poll

Spec == AInit /\ [][ANext]_avars

=============================================================================
